---- MODULE Spec2Model ----
(***************************************************************************)
(* Secure tool-execution core of Hydra-Gamma: the dispatcher               *)
(* (ToolCallAgent.act / execute_tool), the content-policy gate             *)
(* (EthicalGuard), the behavioural gate (DigitalImmunitySystem), the       *)
(* authorization gate (RBACManager) and the secrets vault                  *)
(* (SecretsManager.inject_env_vars).                                       *)
(*                                                                         *)
(* Python strings that the code inspects character by character (shell     *)
(* commands, tool names, the "action" argument, the canonical JSON of the  *)
(* arguments) are sequences of one-character strings.                      *)
(***************************************************************************)
EXTENDS Integers, Sequences, FiniteSets, TLC

\* ------------------------------------------------------------------ bounds
\* Largest number of tool calls in one batch (len(self.tool_calls)).
MaxBatch == 2
\* Largest number of operations applied to one immunity instance.
MaxOps == 4
\* Largest length of a key list handed to inject_env_vars.
MaxKeys == 2
\* Largest number of operations applied to the immunity instance whose
\* failures are counted.
MaxFailOps == 7
\* Largest number of containers the Docker daemon is asked to run.
MaxContainers == 2
\* Largest number of method calls on one DockerSandbox instance.
MaxSandboxOps == 4
\* Longest time a command runs in the container.
MaxTime == 2
MaxErrors == 3
\* execute_tool calls per ToolCallAgent instance when two instances run
CallsPerAgent == 2

\* --------------------------------------------------------- string helpers
\* Python `sub in s` on strings: s has a contiguous run equal to sub.
IsSub(sub, s) ==
    \E k \in 0..(Len(s) - Len(sub)) :
        \A j \in 1..Len(sub) : s[k + j] = sub[j]

IsSpace(c) == c \in {" ", "\t", "\n"}

\* Index of the first non-whitespace character at or after i (Len(s)+1 if none).
RECURSIVE SkipSpace(_, _)
SkipSpace(s, i) ==
    IF i > Len(s) THEN i
    ELSE IF IsSpace(s[i]) THEN SkipSpace(s, i + 1) ELSE i

\* Index just after the run of non-whitespace characters starting at i.
RECURSIVE SkipWord(_, _)
SkipWord(s, i) ==
    IF i > Len(s) THEN i
    ELSE IF IsSpace(s[i]) THEN i ELSE SkipWord(s, i + 1)

\* Python s.strip().split(): does it have an element 0 ?
HasFirstToken(s) == SkipSpace(s, 1) <= Len(s)

\* Python s.strip().split()[0], defined when HasFirstToken(s).
FirstToken(s) ==
    LET b == SkipSpace(s, 1) IN SubSeq(s, b, SkipWord(s, b) - 1)

\* Python str.lower() on the letters the model uses.
LowerChar(c) ==
    CASE c = "R" -> "r"
      [] c = "W" -> "w"
      [] c = "A" -> "a"
      [] OTHER  -> c

Lower(s) == [i \in 1..Len(s) |-> LowerChar(s[i])]

\* ------------------------------------------------------------ string table
S_read     == <<"r", "e", "a", "d">>
S_write    == <<"w", "r", "i", "t", "e">>
S_append   == <<"a", "p", "p", "e", "n", "d">>
S_edit     == <<"e", "d", "i", "t">>
S_navigate == <<"n", "a", "v", "i", "g", "a", "t", "e">>
S_goto     == <<"g", "o", "t", "o">>
S_init     == <<"i", "n", "i", "t">>
S_cron     == <<"c", "r", "o", "n">>
S_call     == <<"c", "a", "l", "l">>
S_Write    == <<"W", "r", "i", "t", "e">>
S_x        == <<"x">>

CmdLs     == <<"l", "s", " ", "-", "l", "a">>
CmdCurl   == <<"c", "u", "r", "l", " ", "x">>
CmdRmRf   == <<"r", "m", " ", "-", "r", "f", " ", "/">>
CmdEchoRm == <<"e", "c", "h", "o", " ", "r", "m", " ", "-", "r", "f", " ", "/">>
CmdBlank  == <<" ">>
CmdEmpty  == <<>>

\* The characters of a tool name (the code tests `"read" in name`).
NameChars(name) ==
    CASE name = "bash"        -> <<"b", "a", "s", "h">>
      [] name = "shell"       -> <<"s", "h", "e", "l", "l">>
      [] name = "file_tool"   -> <<"f", "i", "l", "e", "_", "t", "o", "o", "l">>
      [] name = "search_tool" -> <<"s", "e", "a", "r", "c", "h", "_", "t", "o", "o", "l">>
      [] name = "mcp_tool"    -> <<"m", "c", "p", "_", "t", "o", "o", "l">>
      [] name = "terminate"   -> <<"t", "e", "r", "m", "i", "n", "a", "t", "e">>
      [] name = "nope"        -> <<"n", "o", "p", "e">>
      [] OTHER                -> <<>>

\* The characters of an argument key.
KeyChars(k) ==
    CASE k = "action"  -> <<"a", "c", "t", "i", "o", "n">>
      [] k = "command" -> <<"c", "o", "m", "m", "a", "n", "d">>
      [] k = "query"   -> <<"q", "u", "e", "r", "y">>
      [] OTHER         -> <<>>

\* ------------------------------------------------------------- arguments
\* A parsed argument object: every key of ArgKeys is present (has) with a
\* string value (s), or absent.
ArgKeys == {"action", "command", "query"}
\* sorted(ArgKeys), the order json.dumps(sort_keys=True) writes them in.
SortedArgKeys == <<"action", "command", "query">>

NoVal == [has |-> FALSE, s |-> <<>>]
Val(s) == [has |-> TRUE, s |-> s]
NoArgs == [k \in ArgKeys |-> NoVal]
Args(a, c, q) == [action |-> a, command |-> c, query |-> q]

\* json.dumps(args, sort_keys=True) for an object of string values:
\* {"k1": "v1", "k2": "v2"} with the keys in sorted order.
RECURSIVE DumpFrom(_, _, _)
DumpFrom(args, i, first) ==
    IF i > Len(SortedArgKeys) THEN <<>>
    ELSE LET k == SortedArgKeys[i] IN
         IF args[k].has
         THEN (IF first THEN <<>> ELSE <<",", " ">>)
              \o <<"\"">> \o KeyChars(k) \o <<"\"", ":", " ", "\"">>
              \o args[k].s \o <<"\"">>
              \o DumpFrom(args, i + 1, FALSE)
         ELSE DumpFrom(args, i + 1, first)

json_dumps(args) == <<"{">> \o DumpFrom(args, 1, TRUE) \o <<"}">>

\* ------------------------------------------------------------ EthicalGuard
BLOCKED_COMMANDS ==
    << <<"r", "m", " ", "-", "r", "f", " ", "/">>,
       <<":", "(", ")", "{", " ", ":", "|", ":", "&", " ", "}", ";", ":">>,
       <<"m", "k", "f", "s">>,
       <<"d", "d", " ", "i", "f", "=", "/", "d", "e", "v", "/", "z", "e", "r", "o">> >>

\* The tool names whose command the content policy inspects.
GuardedToolsOnlyShell == {"shell"}
GuardedTools == {"shell", "bash"}

\* EthicalGuard.check_tool_args: is_safe.  command = args.get("command", "").
check_tool_args(tool_name, args) ==
    IF tool_name \in GuardedTools
    THEN LET cmd == IF args["command"].has THEN args["command"].s ELSE <<>> IN
         ~ \E b \in 1..Len(BLOCKED_COMMANDS) : IsSub(BLOCKED_COMMANDS[b], cmd)
    ELSE TRUE

\* -------------------------------------------------------------------- RBAC
Roles == {"free", "pro", "enterprise"}

BASIC_SHELL_COMMANDS ==
    { <<"l", "s">>, <<"c", "d">>, <<"p", "w", "d">>, <<"c", "a", "t">>,
      <<"e", "c", "h", "o">>, <<"m", "k", "d", "i", "r">>,
      <<"t", "o", "u", "c", "h">>, <<"w", "h", "o", "a", "m", "i">>,
      <<"d", "a", "t", "e">> }

\* RBACManager._load_roles: role -> set of <<resource, action>>.
FreePerms ==
    { <<"shell", "exec">>, <<"bash", "exec">>, <<"file_tool", "read">>,
      <<"search_tool", "exec">>, <<"planning", "exec">> }

ProPerms ==
    { <<"shell", "exec">>, <<"bash", "exec">>, <<"file_tool", "read">>,
      <<"file_tool", "write">>, <<"browser_tool", "navigate">>,
      <<"web_dev_tool", "init">>, <<"expose", "port">>,
      <<"search_tool", "exec">>, <<"planning", "exec">> }

EnterprisePerms ==
    { <<"shell", "exec">>, <<"bash", "exec">>, <<"file_tool", "read">>,
      <<"file_tool", "write">>, <<"browser_tool", "navigate">>,
      <<"web_dev_tool", "init">>, <<"expose", "port">>,
      <<"search_tool", "exec">>, <<"mcp_tool", "call">>,
      <<"schedule_tool", "cron">>, <<"git_tool", "exec">>,
      <<"crm_tool", "exec">>, <<"delegate_task", "exec">>,
      <<"python_execute", "exec">>, <<"memory_search", "read">>,
      <<"media_generation_tool", "exec">>, <<"planning", "exec">> }

\* A table in which Pro has lost the search permission Free has.
LoadRolesProWithoutSearch(role) ==
    CASE role = "free" -> FreePerms
      [] role = "pro"  -> ProPerms \ {<<"search_tool", "exec">>}
      [] OTHER         -> EnterprisePerms

_load_roles(role) ==
    CASE role = "free" -> FreePerms
      [] role = "pro"  -> ProPerms
      [] OTHER         -> EnterprisePerms

\* The outcome of a gate: it returns a boolean or raises.
Ret(b) == [raised |-> FALSE, value |-> b]
Raised == [raised |-> TRUE, value |-> FALSE]

\* A shell check that ignores the allow-list (what Pro and Enterprise get).
ShellPermNoAllowList(role, args) ==
    IF ~ args["command"].has THEN Ret(FALSE)
    ELSE IF ~ HasFirstToken(args["command"].s) THEN Raised
    ELSE Ret(TRUE)

\* RBACManager._check_shell_permission.  args["command"].strip().split()[0]
\* raises IndexError when the command has no token.
_check_shell_permission(role, args) ==
    IF (\A k \in ArgKeys : ~ args[k].has) \/ ~ args["command"].has
    THEN Ret(FALSE)
    ELSE IF ~ HasFirstToken(args["command"].s) THEN Raised
    ELSE LET command == FirstToken(args["command"].s) IN
         IF role = "free" THEN Ret(command \in BASIC_SHELL_COMMANDS)
         ELSE IF role = "pro" THEN Ret(TRUE)
         ELSE IF role = "enterprise" THEN Ret(TRUE)
         ELSE Ret(FALSE)

\* RBACManager._check_file_permission.
_check_file_permission(role, action, args) ==
    IF role = "free" /\ action = "write" THEN Ret(FALSE) ELSE Ret(TRUE)

\* RBACManager.check_permission.
check_permission(role, resource, action, args) ==
    LET has_base_perm ==
            \E p \in _load_roles(role) :
                p[1] = resource /\ (p[2] = action \/ p[2] = "*")
    IN  IF ~ has_base_perm THEN Ret(FALSE)
        ELSE IF resource \in {"shell", "bash"} /\ action = "exec"
             THEN _check_shell_permission(role, args)
        ELSE IF resource = "file_tool"
             THEN _check_file_permission(role, action, args)
        ELSE Ret(TRUE)

\* ------------------------------------------------------- action inference
\* ToolCallAgent.execute_tool, "3. RBAC Check": the action inferred from the
\* tool name and from args["action"].
ActionFromName(name) ==
    LET n == NameChars(name) IN
    IF IsSub(S_navigate, n) THEN "navigate"
    ELSE IF IsSub(S_write, n) THEN "write"
    ELSE IF IsSub(S_read, n) THEN "read"
    ELSE "exec"

InferAction(name, args) ==
    IF args["action"].has
    THEN LET val == Lower(args["action"].s) IN
         IF IsSub(S_read, val) THEN "read"
         ELSE IF IsSub(S_write, val) \/ IsSub(S_append, val) \/ IsSub(S_edit, val)
              THEN "write"
         ELSE IF IsSub(S_navigate, val) \/ IsSub(S_goto, val) THEN "navigate"
         ELSE IF IsSub(S_init, val) THEN "init"
         ELSE IF IsSub(S_cron, val) THEN "cron"
         ELSE ActionFromName(name)
    ELSE ActionFromName(name)

\* ---------------------------------------------------- DigitalImmunitySystem
VARIABLES
    failure_counts,   \* self.failure_counts: tool -> int (0 = no entry or reset)
    call_history,     \* self.call_history: list of call signatures
    blocked_tools,    \* self.blocked_tools: list of tool names
    antibodies,       \* self.antibodies: list of regex patterns
    db,               \* the persistence file at db_path
    db_path,          \* self.db_path
    imm_log           \* the operations applied to the instance, with what each returned

immVars == <<failure_counts, call_history, blocked_tools, antibodies, db, db_path,
             imm_log>>

Range(q) == {q[i] : i \in 1..Len(q)}

\* The tool names the model uses.
ToolNames == {"bash", "file_tool", "search_tool", "mcp_tool", "terminate", "nope"}

\* Characters re.escape puts a backslash in front of.
ReSpecialChars ==
    {"(", ")", "[", "]", "{", "}", "?", "*", "+", "-", "|", "^", "$", "\\",
     ".", "&", "~", "#", " ", "\t", "\n"}

\* re.escape(s).
RECURSIVE re_escape(_)
re_escape(s) ==
    IF s = <<>> THEN <<>>
    ELSE (IF Head(s) \in ReSpecialChars THEN <<"\\", Head(s)>> ELSE <<Head(s)>>)
         \o re_escape(Tail(s))

\* The literal a pattern of plain and backslash-escaped characters stands for.
RECURSIVE ReLiteral(_)
ReLiteral(p) ==
    IF p = <<>> THEN <<>>
    ELSE IF Head(p) = "\\" /\ Len(p) >= 2
         THEN <<p[2]>> \o ReLiteral(Tail(Tail(p)))
         ELSE <<Head(p)>> \o ReLiteral(Tail(p))

\* re.search(pattern, s) for such a pattern: the literal occurs anywhere in s.
re_search(pattern, s) == IsSub(ReLiteral(pattern), s)

\* f"{tool_name}:{args_str}"
call_signature(tool_name, args) ==
    NameChars(tool_name) \o <<":">> \o json_dumps(args)

\* monitor_tool_call, lines 84-101: the call is denied before it is recorded.
IsBlacklisted(tool_name) == tool_name \in Range(blocked_tools)

AntibodyTriggered(args) ==
    \E a \in 1..Len(antibodies) : re_search(antibodies[a], json_dumps(args))

\* A loop check that already fires on the third identical call.
IsLoopAtThree(history, sig) ==
    /\ Len(history) >= 3
    /\ \A x \in (Len(history) - 2)..Len(history) : history[x] = sig

\* monitor_tool_call, lines 107-111, on the history that already holds sig.
IsLoop(history, sig) ==
    /\ Len(history) > 3
    /\ \A x \in (Len(history) - 2)..Len(history) : history[x] = sig

\* The value monitor_tool_call returns.
monitor_allows(tool_name, args) ==
    /\ ~ IsBlacklisted(tool_name)
    /\ ~ AntibodyTriggered(args)
    /\ ~ IsLoop(Append(call_history, call_signature(tool_name, args)),
                call_signature(tool_name, args))

\* self.call_history after monitor_tool_call.
history_after(tool_name, args) ==
    IF IsBlacklisted(tool_name) \/ AntibodyTriggered(args)
    THEN call_history
    ELSE Append(call_history, call_signature(tool_name, args))

\* save_immunity_db: the file holds blocked_tools and antibodies.  torn says
\* whether the file holds the whole JSON text ("no"), nothing at all
\* ("empty": opened with mode 'w', nothing written yet) or a prefix of the
\* text ("partial").
\* json.dump of a string: quotes around it, a backslash in front of every
\* quote and backslash.
RECURSIVE JsonEscape(_)
JsonEscape(s) ==
    IF s = <<>> THEN <<>>
    ELSE (IF Head(s) \in {"\"", "\\"} THEN <<"\\", Head(s)>> ELSE <<Head(s)>>)
         \o JsonEscape(Tail(s))

json_dump_str(s) == <<"\"">> \o JsonEscape(s) \o <<"\"">>

\* json.load of such a text: the quotes go, and a backslash stands for the
\* character after it.
RECURSIVE JsonUnescape(_)
JsonUnescape(t) ==
    IF t = <<>> THEN <<>>
    ELSE IF Head(t) = "\\" /\ Len(t) >= 2
         THEN <<t[2]>> \o JsonUnescape(Tail(Tail(t)))
         ELSE <<Head(t)>> \o JsonUnescape(Tail(t))

json_load_str(t) == JsonUnescape(SubSeq(t, 2, Len(t) - 1))

\* The tool name these characters spell.
NameOfChars(c) == CHOOSE t \in ToolNames : NameChars(t) = c

DbOf(blocked, anti) ==
    [exists |-> TRUE,
     blocked_tools |-> [k \in 1..Len(blocked) |-> json_dump_str(NameChars(blocked[k]))],
     antibodies |-> [k \in 1..Len(anti) |-> json_dump_str(anti[k])],
     torn |-> "no"]
NoDb == [exists |-> FALSE, blocked_tools |-> <<>>, antibodies |-> <<>>, torn |-> "no"]
TornDb(how) == [exists |-> TRUE, blocked_tools |-> <<>>, antibodies |-> <<>>, torn |-> how]

\* load_immunity_db on a file: json.load raises on an empty or partial text,
\* the except clause logs it and the lists keep their initial value [].
LoadedBlocked(file) ==
    IF file.exists /\ file.torn = "no"
    THEN [k \in 1..Len(file.blocked_tools) |->
             NameOfChars(json_load_str(file.blocked_tools[k]))]
    ELSE <<>>
LoadedAntibodies(file) ==
    IF file.exists /\ file.torn = "no"
    THEN [k \in 1..Len(file.antibodies) |-> json_load_str(file.antibodies[k])]
    ELSE <<>>

\* IMMUNITY_DB_PATH, and a path with no directory part.
IMMUNITY_DB_PATH ==
    <<"w", "o", "r", "k", "s", "p", "a", "c", "e", "/",
      "i", "m", "m", "u", "n", "i", "t", "y", "_", "d", "b", ".", "j", "s", "o", "n">>
BareDbPath == <<"d", "b", ".", "j", "s", "o", "n">>

\* os.path.dirname(p): what stands before the last "/" ("/" itself for a
\* file of the root directory), the empty string when p has no "/".
Dirname(p) ==
    LET slashes == {i \in 1..Len(p) : p[i] = "/"} IN
    IF slashes = {} THEN <<>>
    ELSE LET last == CHOOSE i \in slashes : \A j \in slashes : j <= i IN
         IF last = 1 THEN <<"/">> ELSE SubSeq(p, 1, last - 1)

\* save_immunity_db, lines 48-54: os.makedirs("") raises FileNotFoundError,
\* the except clause logs it and the file is not written.
SaveRaises == Dirname(db_path) = <<>>

\* The persistence file after save_immunity_db() with these two lists.
save_immunity_db(blocked, anti) ==
    IF SaveRaises THEN db ELSE DbOf(blocked, anti)

\* record_failure: the three fields it changes.
FailureThreshold == 5

failures_after(tool_name) ==
    [failure_counts EXCEPT ![tool_name] = @ + 1]

\* A threshold test that already fires when the count reaches the threshold.
BlockedAtThreshold(tool_name) ==
    IF failures_after(tool_name)[tool_name] >= FailureThreshold
       /\ tool_name \notin Range(blocked_tools)
    THEN Append(blocked_tools, tool_name)
    ELSE blocked_tools

blocked_after_failure(tool_name) ==
    IF failures_after(tool_name)[tool_name] > FailureThreshold
       /\ tool_name \notin Range(blocked_tools)
    THEN Append(blocked_tools, tool_name)
    ELSE blocked_tools

db_after_failure(tool_name) ==
    IF blocked_after_failure(tool_name) # blocked_tools
    THEN save_immunity_db(blocked_after_failure(tool_name), antibodies)
    ELSE db

\* add_antibody(pattern).
antibodies_after_add(pattern) ==
    IF pattern \notin Range(antibodies) THEN Append(antibodies, pattern) ELSE antibodies

db_after_add(pattern) ==
    IF pattern \notin Range(antibodies)
    THEN save_immunity_db(blocked_tools, antibodies_after_add(pattern))
    ELSE db

\* What the persistence file may hold when an instance is constructed.
ImmTools == {"bash", "search_tool"}
ImmArgs == {NoArgs, Args(NoVal, Val(CmdLs), NoVal)}

StartDbs ==
    { NoDb,
      DbOf(<<"bash">>, <<>>),
      DbOf(<<>>, <<re_escape(json_dumps(Args(NoVal, Val(CmdLs), NoVal)))>>) }

\* __init__ and load_immunity_db.
ImmConstruct(dbs, paths) ==
    /\ db \in dbs
    /\ db_path \in paths
    /\ failure_counts = [t \in ToolNames |-> 0]
    /\ call_history = <<>>
    /\ blocked_tools = LoadedBlocked(db)
    /\ antibodies = LoadedAntibodies(db)
    /\ imm_log = <<>>

DbPaths == {IMMUNITY_DB_PATH, BareDbPath}

ImmInit == ImmConstruct(StartDbs, {IMMUNITY_DB_PATH})

OpsLeft == Len(imm_log) < MaxOps

LogEntry(op, tool_name, args, clean, ret) ==
    [op |-> op, tool |-> tool_name, args |-> args, clean |-> clean, ret |-> ret]

\* monitor_tool_call(tool_name, args).
MonitorToolCall(tool_name, args) ==
    /\ call_history' = history_after(tool_name, args)
    /\ imm_log' = Append(imm_log,
           LogEntry("monitor_tool_call", tool_name, args,
                    ~ IsBlacklisted(tool_name) /\ ~ AntibodyTriggered(args),
                    monitor_allows(tool_name, args)))
    /\ UNCHANGED <<failure_counts, blocked_tools, antibodies, db, db_path>>

\* record_failure(tool_name).
RecordFailure(tool_name) ==
    /\ failure_counts' = failures_after(tool_name)
    /\ blocked_tools' = blocked_after_failure(tool_name)
    /\ db' = db_after_failure(tool_name)
    /\ imm_log' = Append(imm_log, LogEntry("record_failure", tool_name, NoArgs, TRUE, TRUE))
    /\ UNCHANGED <<call_history, antibodies, db_path>>

\* A record_success that also takes the tool off the blacklist.
RecordSuccessUnblocks(tool_name) ==
    /\ failure_counts' = [failure_counts EXCEPT ![tool_name] = 0]
    /\ blocked_tools' = SelectSeq(blocked_tools, LAMBDA b : b # tool_name)
    /\ imm_log' = Append(imm_log, LogEntry("record_success", tool_name, NoArgs, TRUE, TRUE))
    /\ UNCHANGED <<call_history, antibodies, db, db_path>>

\* record_success(tool_name).
RecordSuccess(tool_name) ==
    /\ failure_counts' = [failure_counts EXCEPT ![tool_name] = 0]
    /\ imm_log' = Append(imm_log, LogEntry("record_success", tool_name, NoArgs, TRUE, TRUE))
    /\ UNCHANGED <<call_history, blocked_tools, antibodies, db, db_path>>

\* learn_from_attack(tool_name, args, reason).
LearnFromAttack(tool_name, args) ==
    /\ antibodies' = antibodies_after_add(re_escape(json_dumps(args)))
    /\ db' = db_after_add(re_escape(json_dumps(args)))
    /\ imm_log' = Append(imm_log, LogEntry("learn_from_attack", tool_name, args, TRUE, TRUE))
    /\ UNCHANGED <<failure_counts, call_history, blocked_tools, db_path>>

\* ------------------------------------- the persistence file, step by step
\* save_immunity_db writes the file in place: open(db_path, 'w') empties it,
\* json.dump fills it through the buffer of the file object, and leaving the
\* `with` block flushes and closes it.  Another process that constructs a
\* DigitalImmunitySystem on the same path can read the file between these
\* system calls.
VARIABLES
    save_pc,     \* where save_immunity_db is: "idle", "opened", "flushed"
    save_data,   \* the `data` being written (NoDb when idle)
    reader       \* what a second instance found when it loaded the file

persVars == <<save_pc, save_data, reader>>

NotLoaded == [loaded |-> FALSE, file |-> NoDb, blocked_tools |-> <<>>, antibodies |-> <<>>]

\* No save is in progress and no second instance was constructed.
PersIdle ==
    /\ save_pc = "idle"
    /\ save_data = NoDb
    /\ reader = NotLoaded

\* Lines 44-50 of a save of these lists: up to open(self.db_path, 'w').
SaveOpens(blocked, anti) ==
    IF SaveRaises
    THEN UNCHANGED <<db, save_pc, save_data>>
    ELSE /\ db' = TornDb("empty")
         /\ save_pc' = "opened"
         /\ save_data' = DbOf(blocked, anti)

\* record_failure(tool_name) up to the point where the file is open.
FailureBeginsSave(tool_name) ==
    /\ save_pc = "idle"
    /\ failure_counts' = failures_after(tool_name)
    /\ blocked_tools' = blocked_after_failure(tool_name)
    /\ imm_log' = Append(imm_log, LogEntry("record_failure", tool_name, NoArgs, TRUE, TRUE))
    /\ IF blocked_after_failure(tool_name) # blocked_tools
       THEN SaveOpens(blocked_after_failure(tool_name), antibodies)
       ELSE UNCHANGED <<db, save_pc, save_data>>
    /\ UNCHANGED <<call_history, antibodies, db_path, reader>>

\* learn_from_attack(tool_name, args) up to the point where the file is open.
LearnBeginsSave(tool_name, args) ==
    /\ save_pc = "idle"
    /\ antibodies' = antibodies_after_add(re_escape(json_dumps(args)))
    /\ imm_log' = Append(imm_log, LogEntry("learn_from_attack", tool_name, args, TRUE, TRUE))
    /\ IF antibodies_after_add(re_escape(json_dumps(args))) # antibodies
       THEN SaveOpens(blocked_tools, antibodies_after_add(re_escape(json_dumps(args))))
       ELSE UNCHANGED <<db, save_pc, save_data>>
    /\ UNCHANGED <<failure_counts, call_history, blocked_tools, db_path, reader>>

\* save_immunity_db() called on the instance, up to the point where the
\* file is open.
SaveBegins ==
    /\ save_pc = "idle"
    /\ imm_log' = Append(imm_log, LogEntry("save_immunity_db", "", NoArgs, TRUE, TRUE))
    /\ SaveOpens(blocked_tools, antibodies)
    /\ UNCHANGED <<failure_counts, call_history, blocked_tools, antibodies, db_path,
                   reader>>

\* json.dump filled the buffer of the file object and the buffer was
\* flushed: the file holds the beginning of the text.
SaveFlushes ==
    /\ save_pc = "opened"
    /\ db' = TornDb("partial")
    /\ save_pc' = "flushed"
    /\ UNCHANGED <<failure_counts, call_history, blocked_tools, antibodies, db_path,
                   imm_log, save_data, reader>>

\* The `with` block is left: the file holds the whole text, the call returns.
SaveCloses ==
    /\ save_pc \in {"opened", "flushed"}
    /\ db' = save_data
    /\ save_pc' = "idle"
    /\ save_data' = NoDb
    /\ UNCHANGED <<failure_counts, call_history, blocked_tools, antibodies, db_path,
                   imm_log, reader>>

\* A second process constructs DigitalImmunitySystem(db_path): __init__ and
\* load_immunity_db on the file as it is now.
ReaderLoads ==
    /\ ~ reader.loaded
    /\ reader' = [loaded |-> TRUE, file |-> db, blocked_tools |-> LoadedBlocked(db),
                  antibodies |-> LoadedAntibodies(db)]
    /\ UNCHANGED <<failure_counts, call_history, blocked_tools, antibodies, db,
                   db_path, imm_log, save_pc, save_data>>

\* save_immunity_db() of the second instance, which was constructed on the
\* same path: the file is rewritten in place from the lists that instance
\* holds (what it loaded), nothing of the file's content is read or merged.
ReaderSaves ==
    /\ reader.loaded
    /\ save_pc = "idle"
    /\ db' = save_immunity_db(reader.blocked_tools, reader.antibodies)
    /\ UNCHANGED <<failure_counts, call_history, blocked_tools, antibodies, db_path,
                   imm_log, save_pc, save_data, reader>>

\* ------------------------------------------------------------ SecretsManager
VARIABLES
    env,      \* os.environ: key -> value, or Absent
    vault,    \* FileVault._cache (secrets.json): key -> value, or Absent
    ctx       \* per call: the state of its inject_env_vars context manager

secVars == <<env, vault, ctx>>

Absent == "<absent>"

EnvKeys == {"SEARCH_API_KEY", "GOOGLE_API_KEY", "BING_API_KEY", "MCP_API_KEY",
            "NOTION_API_KEY"}

\* `if secret:` - None and the empty string are both "no secret".
Truthy(v) == v # Absent /\ v # ""

\* SecretsManager.get_secret against environment e: FileVault, then EnvVarVault.
get_secret(e, key) ==
    IF Truthy(vault[key]) THEN vault[key]
    ELSE IF Truthy(e[key]) THEN e[key]
    ELSE Absent

\* The state of one context manager: where it is, its key list, its two
\* locals, and the environment seen on entry and left on exit.
IdleCtx(keys) ==
    [at |-> "out", keys |-> keys,
     original_env |-> [k \in EnvKeys |-> Absent], injected_keys |-> <<>>,
     pre |-> [k \in EnvKeys |-> Absent], post |-> [k \in EnvKeys |-> Absent],
     exit |-> "none", overlapped |-> {}]

\* Lines 77-83: the loop over keys, from position i on.
RECURSIVE InjectFrom(_, _, _, _, _)
InjectFrom(keys, i, e, original, injected) ==
    IF i > Len(keys)
    THEN [env |-> e, original_env |-> original, injected_keys |-> injected]
    ELSE LET key == keys[i]
             secret == get_secret(e, key)
         IN  IF Truthy(secret)
             THEN InjectFrom(keys, i + 1,
                             [e EXCEPT ![key] = secret],
                             IF e[key] # Absent
                             THEN [original EXCEPT ![key] = e[key]]
                             ELSE original,
                             Append(injected, key))
             ELSE InjectFrom(keys, i + 1, e, original, injected)

\* Lines 87-91: the cleanup loop over injected_keys, from position i on.
RECURSIVE RestoreFrom(_, _, _, _)
RestoreFrom(injected, i, e, original) ==
    IF i > Len(injected) THEN e
    ELSE LET key == injected[i] IN
         RestoreFrom(injected, i + 1,
                     [e EXCEPT ![key] = original[key]],
                     original)

\* A cleanup that forgets the keys that were absent before the call.
CleanupKeepsNewKeys(c, how) ==
    LET onlySaved == SelectSeq(c.injected_keys, LAMBDA k : c.original_env[k] # Absent)
    IN  RestoreFrom(onlySaved, 1, env, c.original_env)

\* The environment after the `finally` block of context c, left by a normal
\* return of the body or by an exception in it (how).
Cleanup(c, how) == RestoreFrom(c.injected_keys, 1, env, c.original_env)

\* Entering the context manager with key list keys.
EnterCtx(c, others) ==
    LET r == InjectFrom(c.keys, 1, env, [k \in EnvKeys |-> Absent], <<>>) IN
    [c EXCEPT !.at = "in", !.original_env = r.original_env,
              !.injected_keys = r.injected_keys, !.pre = env,
              !.overlapped = others]

EnvAfterEnter(c) ==
    InjectFrom(c.keys, 1, env, [k \in EnvKeys |-> Absent], <<>>).env

ExitCtx(c, how) ==
    [c EXCEPT !.at = "exited", !.exit = how, !.post = Cleanup(c, how)]

\* ------------------------------------------------------------ DockerSandbox
VARIABLES
    sb_container,  \* self.container: 0 for None, else the id of the container
    docker,        \* the daemon: container id -> "absent", "running", "exited", "removed"
    sb_calls,      \* the Docker API calls the instance made, with their outcome
    sb_ops,        \* the methods called on the instance, with their outcome
    sb_exec        \* the command container.exec_run is blocked on, if any

sbVars == <<sb_container, docker, sb_calls, sb_ops, sb_exec>>

ContainerIds == 1..MaxContainers

NoExec == [running |-> FALSE, elapsed |-> 0, timeout |-> 0, duration |-> 0]

\* DockerSandbox.__init__: no container yet.
SandboxInit ==
    /\ sb_container = 0
    /\ docker = [c \in ContainerIds |-> "absent"]
    /\ sb_calls = <<>>
    /\ sb_ops = <<>>
    /\ sb_exec = NoExec

ApiCall(api, id, ok) == [api |-> api, id |-> id, ok |-> ok]
SbOp(op, container, ret) == [op |-> op, container |-> container, ret |-> ret]

\* The instance can be called: it was not finalized, it is not blocked in
\* container.exec_run, and the run is within its length.
SbCallable ==
    /\ Len(sb_ops) < MaxSandboxOps
    /\ ~ sb_exec.running
    /\ \A n \in 1..Len(sb_ops) : sb_ops[n].op # "__del__"

\* The id the daemon gives the next container.
NextId == CHOOSE c \in ContainerIds : docker[c] = "absent" /\ \A d \in ContainerIds : docker[d] = "absent" => c <= d

\* ResourceMonitor.check_timeout with time.time() = now.
check_timeout(now, start_time, timeout) == (now - start_time) > timeout

\* start(): client.containers.run raises (run_ok = FALSE) and start re-raises,
\* or the container runs, self.container is set, and exec_run("mkdir -p ...")
\* is called, whose exception (mkdir_ok = FALSE) exec_run swallows.
SbStart(run_ok, mkdir_ok) ==
    /\ SbCallable
    /\ \E c \in ContainerIds : docker[c] = "absent"
    /\ IF run_ok
       THEN /\ docker' = [docker EXCEPT ![NextId] = "running"]
            /\ sb_container' = NextId
            /\ sb_calls' = sb_calls \o <<ApiCall("run", NextId, TRUE),
                                         ApiCall("exec_run", NextId, mkdir_ok)>>
            /\ sb_ops' = Append(sb_ops, SbOp("start", NextId, "returned"))
       ELSE /\ mkdir_ok
            /\ sb_calls' = Append(sb_calls, ApiCall("run", 0, FALSE))
            /\ sb_ops' = Append(sb_ops, SbOp("start", sb_container, "raised"))
            /\ UNCHANGED <<docker, sb_container>>
    /\ UNCHANGED sb_exec

\* A stop() without the `if self.container` test: with no container the
\* call on None raises.
SbStopUnguarded(stop_ok, remove_ok) ==
    /\ SbCallable
    /\ IF sb_container = 0
       THEN /\ stop_ok /\ remove_ok
            /\ sb_calls' = Append(sb_calls, ApiCall("stop", 0, FALSE))
            /\ UNCHANGED docker
       ELSE IF stop_ok
       THEN /\ docker' = [docker EXCEPT ![sb_container] =
                             IF remove_ok THEN "removed" ELSE "exited"]
            /\ sb_calls' = sb_calls \o <<ApiCall("stop", sb_container, TRUE),
                                         ApiCall("remove", sb_container, remove_ok)>>
       ELSE /\ remove_ok
            /\ sb_calls' = Append(sb_calls, ApiCall("stop", sb_container, FALSE))
            /\ UNCHANGED docker
    /\ sb_container' = 0
    /\ sb_ops' = Append(sb_ops, SbOp("stop", sb_container,
                                    IF sb_container = 0 THEN "raised" ELSE "returned"))
    /\ UNCHANGED sb_exec

\* stop(): nothing without a container; else container.stop(timeout=1), then
\* container.remove(force=True); an exception of either is logged, and the
\* finally clause forgets the container.
SbStop(stop_ok, remove_ok) ==
    /\ SbCallable
    /\ IF sb_container = 0
       THEN /\ stop_ok /\ remove_ok
            /\ UNCHANGED <<docker, sb_calls>>
       ELSE IF stop_ok
       THEN /\ docker' = [docker EXCEPT ![sb_container] =
                             IF remove_ok THEN "removed" ELSE "exited"]
            /\ sb_calls' = sb_calls \o <<ApiCall("stop", sb_container, TRUE),
                                         ApiCall("remove", sb_container, remove_ok)>>
       ELSE /\ remove_ok
            /\ sb_calls' = Append(sb_calls, ApiCall("stop", sb_container, FALSE))
            /\ UNCHANGED docker
    /\ sb_container' = 0
    /\ sb_ops' = Append(sb_ops, SbOp("stop", sb_container, "returned"))
    /\ UNCHANGED sb_exec

\* exec_run(cmd, timeout=timeout) without a container: RuntimeError.
SbExecRefused ==
    /\ SbCallable
    /\ sb_container = 0
    /\ sb_ops' = Append(sb_ops, SbOp("exec_run", 0, "refused"))
    /\ UNCHANGED <<sb_container, docker, sb_calls, sb_exec>>

\* exec_run(cmd, timeout=timeout), lines 80-98: container.exec_run is called
\* (the timeout argument is not passed on) and blocks until the command, which
\* runs for `duration`, completes.  timeout = 0 stands for None.
SbExecStarts(timeout, duration) ==
    /\ SbCallable
    /\ sb_container # 0
    /\ sb_exec' = [running |-> TRUE, elapsed |-> 0, timeout |-> timeout,
                   duration |-> duration]
    /\ UNCHANGED <<sb_container, docker, sb_calls, sb_ops>>

\* Time passes while the command runs.
SbTick ==
    /\ sb_exec.running
    /\ sb_exec.elapsed < sb_exec.duration
    /\ sb_exec' = [sb_exec EXCEPT !.elapsed = @ + 1]
    /\ UNCHANGED <<sb_container, docker, sb_calls, sb_ops>>

\* Lines 99-110: the command completed (or container.exec_run raised, which
\* exec_run turns into (-1, str(e))), and exec_run returns.
SbExecEnds(api_ok) ==
    /\ sb_exec.running
    /\ sb_exec.elapsed = sb_exec.duration
    /\ sb_exec' = NoExec
    /\ sb_calls' = Append(sb_calls, ApiCall("exec_run", sb_container, api_ok))
    /\ sb_ops' = Append(sb_ops, SbOp("exec_run", sb_container, "returned"))
    /\ UNCHANGED <<sb_container, docker>>

\* read_file / write_file: RuntimeError without a container; else one
\* get_archive / put_archive call, whose exception is raised again as
\* FileNotFoundError or RuntimeError.
SbFileOp(op, api, api_ok) ==
    /\ SbCallable
    /\ IF sb_container = 0
       THEN /\ api_ok
            /\ sb_ops' = Append(sb_ops, SbOp(op, 0, "refused"))
            /\ UNCHANGED sb_calls
       ELSE /\ sb_calls' = Append(sb_calls, ApiCall(api, sb_container, api_ok))
            /\ sb_ops' = Append(sb_ops, SbOp(op, sb_container,
                                            IF api_ok THEN "returned" ELSE "raised"))
    /\ UNCHANGED <<sb_container, docker, sb_exec>>

\* __del__: container.remove(force=True) if a container is still held; its
\* exception is swallowed.
SbDel(remove_ok) ==
    /\ SbCallable
    /\ IF sb_container = 0
       THEN /\ remove_ok
            /\ UNCHANGED <<docker, sb_calls>>
       ELSE /\ sb_calls' = Append(sb_calls, ApiCall("remove", sb_container, remove_ok))
            /\ docker' = [docker EXCEPT ![sb_container] =
                             IF remove_ok THEN "removed" ELSE @]
    /\ sb_ops' = Append(sb_ops, SbOp("__del__", sb_container, "returned"))
    /\ UNCHANGED <<sb_container, sb_exec>>

\* The components the dispatcher does not touch.
VARIABLES
    rec_log   \* the analyze_error calls made, with the plan each returned

recVars == <<rec_log>>

VARIABLES
    agent_lock   \* per ToolCallAgent instance of the process: its _secrets_lock,
                 \* 0 when free, else the call holding it

agVars == <<agent_lock>>

\* The ToolCallAgent instances of the process.
Agents == {1, 2}

compVars == <<persVars, sbVars, recVars, agVars>>

\* -------------------------------------------------------------- Dispatcher
VARIABLES
    role,         \* self._user.role
    tool_calls,   \* self.tool_calls: the batch, a list of ToolCall
    pc,           \* per call: where its execute_tool task is
    results,      \* per call: what its execute_tool task returned
    lock,         \* self._secrets_lock: 0 when free, else the call holding it
    audit,        \* the audit log, one entry per line
    compliance,   \* ComplianceManager._user_data_registry for self._user.id
    stages,       \* per call: the pipeline stages run for it, in order
    finished,     \* the calls in the order their tasks completed
    memory,       \* the tool messages act() added to self.memory
    act_result,   \* what ToolCallAgent.act() returned (NotYet until it returns)
    agent_state,  \* self.state
    core_result,  \* `result` of AgentCore.act at line 386 (NotYet before)
    error_history \* RecoveryManager.error_history

dispVars == <<role, tool_calls, pc, results, lock, audit, compliance, stages,
              finished, memory, act_result, agent_state, core_result, error_history>>

vars == <<failure_counts, call_history, blocked_tools, antibodies, db, db_path,
          imm_log, save_pc, save_data, reader,
          env, vault, ctx,
          sb_container, docker, sb_calls, sb_ops, sb_exec,
          role, tool_calls, pc, results, lock, audit, compliance, stages,
          finished, memory, act_result, agent_state, core_result, error_history,
          rec_log, agent_lock>>

\* available_tools.tool_map of the modelled agent.
tool_map == {"bash", "file_tool", "search_tool", "mcp_tool", "terminate"}
special_tool_names == {"terminate"}

\* TOOL_REQUIRED_SECRETS.get(name, []).
TOOL_REQUIRED_SECRETS(name) ==
    CASE name = "notion_tool" -> <<"NOTION_API_KEY">>
      [] name = "search_tool" -> <<"SEARCH_API_KEY", "GOOGLE_API_KEY", "BING_API_KEY">>
      [] name = "mcp_tool"    -> <<"MCP_API_KEY">>
      [] OTHER                -> <<>>

\* command.function.arguments: a string that json.loads turns into an object,
\* or that it rejects, or None/"" (read as "{}").
JsonObject(args) == [kind |-> "object", obj |-> args]
JsonMalformed == [kind |-> "malformed", obj |-> NoArgs]
JsonNone == [kind |-> "none", obj |-> NoArgs]

json_loads_fails(arguments) == arguments.kind = "malformed"
json_loads(arguments) == IF arguments.kind = "object" THEN arguments.obj ELSE NoArgs

\* The (tool name, arguments) pairs a batch is drawn from.
RequestKinds ==
    { [name |-> "bash", arguments |-> JsonObject(Args(NoVal, Val(CmdLs), NoVal))],
      [name |-> "bash", arguments |-> JsonObject(Args(NoVal, Val(CmdCurl), NoVal))],
      [name |-> "bash", arguments |-> JsonObject(Args(NoVal, Val(CmdRmRf), NoVal))],
      [name |-> "bash", arguments |-> JsonObject(Args(NoVal, Val(CmdBlank), NoVal))],
      [name |-> "bash", arguments |-> JsonMalformed],
      [name |-> "file_tool", arguments |-> JsonObject(Args(Val(S_Write), NoVal, NoVal))],
      [name |-> "search_tool", arguments |-> JsonObject(Args(NoVal, NoVal, Val(S_x)))],
      [name |-> "mcp_tool", arguments |-> JsonObject(Args(Val(S_call), NoVal, NoVal))],
      [name |-> "nope", arguments |-> JsonNone] }

Calls == 1..Len(tool_calls)

NotYet == [kind |-> "NotYet", text |-> <<>>]
Result(kind, text) == [kind |-> kind, text |-> text]

\* The text of the first blocked command found in cmd (the loop of
\* check_tool_args returns at the first hit).
BlockedText(b) ==
    CASE b = 1 -> "rm -rf /"
      [] b = 2 -> ":(){ :|:& };:"
      [] b = 3 -> "mkfs"
      [] OTHER -> "dd if=/dev/zero"

FirstBlocked(args) ==
    LET cmd == IF args["command"].has THEN args["command"].s ELSE <<>>
        hits == {b \in 1..Len(BLOCKED_COMMANDS) : IsSub(BLOCKED_COMMANDS[b], cmd)}
    IN  CHOOSE b \in hits : \A o \in hits : b <= o

\* What a tool may return: nothing, or an output of its own.
OutTag(i) ==
    CASE i = 1 -> "out1" [] i = 2 -> "out2" [] i = 3 -> "out3" [] OTHER -> "outN"

ToolOutputs(i) == {<<>>, <<OutTag(i), "test@example.com">>}

\* Sanitizer.sanitize on a text given as a list of segments: the segments that
\* match one of PATTERNS are replaced.
SanitizeSeg(seg) ==
    CASE seg = "test@example.com" -> "[EMAIL_REDACTED]"
      [] OTHER -> seg

Sanitize(text) == [k \in 1..Len(text) |-> SanitizeSeg(text[k])]

\* Lines 316-326; the outputs of the model are shorter than 5000 characters.
Observation(name, result) ==
    Sanitize(IF result # <<>> THEN result
             ELSE <<"Cmd", name, "completed with no output">>)

\* str(uuid.uuid4()): a key no other field of the log holds.
Uuid(n) == [fresh |-> n, text |-> ""]
\* A task_id the caller passes.
TaskId(text) == [fresh |-> 0, text |-> text]

\* The entry log_event builds (`call` tells which task wrote it; it is no
\* field of the entry).  payload is a text given as a list of segments.
AuditEntry(event, i, name, status, payload) ==
    [event_type |-> event, call |-> i, tool_name |-> name, result_status |-> status,
     payload |-> payload, task_id |-> TaskId(""), trace_id |-> TaskId("")]

\* AuditLogger.log_event, lines 38-46 and 49-56, on the log aud: task_id and
\* trace_id are the caller's, or a uuid4 each when the caller passes none.
log_event(aud, e, task_id) ==
    Append(aud, [e EXCEPT !.task_id = IF task_id = "" THEN Uuid(2 * Len(aud) + 1)
                                      ELSE TaskId(task_id),
                          !.trace_id = Uuid(2 * Len(aud) + 2)])

\* execute_tool, line 250: the first 20 characters of the first message of
\* the memory (one segment in the model), "unknown" for an empty memory.
WeakTaskId ==
    IF memory # <<>> THEN "messages[0].content[:20]" ELSE "unknown"

\* str(e) of the exceptions of the model.
ExcText(exc) ==
    CASE exc = "IndexError" -> <<"list index out of range">>
      [] OTHER -> <<"login failed for", "test@example.com">>

\* The exceptions the second except clause of execute_tool catches.
CatchesOnlyToolErrors(exc) == exc = "ToolError"
CaughtByExceptException(exc) == TRUE

\* Is another task suspended in `async with self._secrets_lock` ?
Waiters == {j \in Calls : pc[j] = "waiting"}

\* Lock.acquire without waiting: the lock is free and nobody is queued.
CanAcquireIgnoringLock(i) == TRUE
CanAcquire(i) == lock = 0 /\ \A j \in Waiters : j >= i

\* What the synchronous part of a task leaves behind: where the task goes
\* next, its result, and the shared state it wrote.
Outcome(next, result, aud, hist, fails, blocked, dbfile, comp, stg) ==
    [next |-> next, result |-> result, audit |-> aud, call_history |-> hist,
     failure_counts |-> fails, blocked_tools |-> blocked, db |-> dbfile,
     compliance |-> comp, stages |-> stg]

\* A JSON error handled like any other exception: the failure is recorded.
JsonErrorRecordsFailure(i, name) ==
    Outcome("done",
            Result("InvalidArgument",
                   <<"Error: Error parsing arguments for", name, ": Invalid JSON format">>),
            audit, call_history, failures_after(name), blocked_after_failure(name),
            db_after_failure(name), compliance, stages[i])

\* Lines 344-347: except json.JSONDecodeError.
JsonErrorPath(i, name) ==
    Outcome("done",
            Result("InvalidArgument",
                   <<"Error: Error parsing arguments for", name, ": Invalid JSON format">>),
            audit, call_history, failure_counts, blocked_tools, db, compliance,
            stages[i])

\* Lines 348-365: except Exception, for exception exc raised after the
\* stages stg, with the log aud and the history hist written so far.
ExceptPath(i, name, exc, aud, hist, comp, stg) ==
    IF CaughtByExceptException(exc)
    THEN Outcome("done",
                 Result("ToolExecutionError",
                        <<"Error: Tool", name, "encountered a problem:">> \o ExcText(exc)),
                 log_event(aud, AuditEntry("tool_result", i, name, "error", ExcText(exc)),
                           "unknown"),
                 hist, failures_after(name), blocked_after_failure(name),
                 db_after_failure(name), comp,
                 stg \o <<"audit_end", "record_failure">>)
    ELSE Outcome("raised", Result("Exception", <<exc>>), aud, hist,
                 failure_counts, blocked_tools, db, comp, stg)

\* An RBAC stage that logs the denial and goes on to the lock.
RbacStageFallsThrough(i, name, args, aud, hist, stg) ==
    LET perm == check_permission(role, name, InferAction(name, args), args) IN
    Outcome("lock", NotYet,
            IF perm.value THEN aud
            ELSE log_event(aud, AuditEntry("rbac_denied", i, name, "none",
                           <<"Permission denied for user role", role, "on", name>>), ""),
            hist, failure_counts, blocked_tools, db, compliance,
            stg \o <<IF perm.value THEN "rbac:allow" ELSE "rbac:deny">>)

\* Lines 269-290: the RBAC stage and what follows it up to the lock.
RbacStage(i, name, args, aud, hist, stg) ==
    LET action == InferAction(name, args)
        perm == check_permission(role, name, action, args)
        comp == IF name \in {"file_tool", "search_tool", "mcp_tool"}
                THEN Append(compliance, <<name, action>>)
                ELSE compliance
    IN  IF perm.raised
        THEN ExceptPath(i, name, "IndexError", aud, hist, compliance,
                        stg \o <<"rbac:raise">>)
        ELSE IF ~ perm.value
        THEN Outcome("done",
                     Result("PermissionDenied",
                            <<"Error: Permission denied for user role", role, "on", name>>),
                     log_event(aud, AuditEntry("rbac_denied", i, name, "none",
                         <<"Permission denied for user role", role, "on", name>>), ""),
                     hist, failure_counts, blocked_tools, db, compliance,
                     stg \o <<"rbac:deny">>)
        ELSE Outcome("lock", NotYet, aud, hist, failure_counts, blocked_tools, db,
                     comp, stg \o <<"rbac:allow", "compliance">>)

\* An immunity stage that logs the denial and goes on to the RBAC stage.
ImmunityStageFallsThrough(i, name, args, aud, stg) ==
    RbacStage(i, name, args,
              IF monitor_allows(name, args) THEN aud
              ELSE log_event(aud, AuditEntry("immunity_blocked", i, name, "none",
                       <<"Digital Immunity blocked tool", name,
                         "due to suspicious behavior.">>), ""),
              history_after(name, args),
              stg \o <<IF monitor_allows(name, args)
                       THEN "immunity:allow" ELSE "immunity:deny">>)

\* Lines 263-267: the immunity stage.
ImmunityStage(i, name, args, aud, stg) ==
    IF ~ monitor_allows(name, args)
    THEN Outcome("done",
                 Result("ImmunityBlocked",
                        <<"Error: Digital Immunity blocked tool", name,
                          "due to suspicious behavior.">>),
                 log_event(aud, AuditEntry("immunity_blocked", i, name, "none",
                     <<"Digital Immunity blocked tool", name,
                       "due to suspicious behavior.">>), ""),
                 history_after(name, args), failure_counts, blocked_tools, db,
                 compliance, stg \o <<"immunity:deny">>)
    ELSE RbacStage(i, name, args, aud, history_after(name, args),
                   stg \o <<"immunity:allow">>)

\* Lines 257-261: the content-policy stage.
EthicalStage(i, name, args, aud, stg) ==
    IF ~ check_tool_args(name, args)
    THEN Outcome("done",
                 Result("SecurityBlocked",
                        <<"Error: Command blocked by safety policy:",
                          BlockedText(FirstBlocked(args))>>),
                 log_event(aud, AuditEntry("security_blocked", i, name, "none",
                     <<"Command blocked by safety policy:",
                       BlockedText(FirstBlocked(args))>>), ""),
                 call_history, failure_counts, blocked_tools, db, compliance,
                 stg \o <<"ethical_guard:blocked">>)
    ELSE ImmunityStage(i, name, args, aud, stg \o <<"ethical_guard:safe">>)

\* Lines 235-303: execute_tool from its start to the lock.
Prefix(i) ==
    LET name == tool_calls[i].name
        arguments == tool_calls[i].arguments
    IN  IF name = ""
        THEN Outcome("done", Result("InvalidCommand", <<"Error: Invalid command format">>),
                     audit, call_history, failure_counts, blocked_tools, db,
                     compliance, stages[i])
        ELSE IF name \notin tool_map
        THEN Outcome("done", Result("UnknownTool", <<"Error: Unknown tool", name>>),
                     audit, call_history, failure_counts, blocked_tools, db,
                     compliance, stages[i])
        ELSE IF json_loads_fails(arguments)
        THEN JsonErrorPath(i, name)
        ELSE EthicalStage(i, name, json_loads(arguments),
                          log_event(audit, AuditEntry("tool_call", i, name, "none", <<>>),
                                    WeakTaskId),
                          stages[i] \o <<"audit_start">>)

\* Lines 308-310: the lock is taken, the secrets are injected and the tool is
\* started; the task is suspended in `await self.available_tools.execute`.
EnterRegion(i, stg) ==
    LET c == [ctx[i] EXCEPT !.keys = TOOL_REQUIRED_SECRETS(tool_calls[i].name)]
        inside == {j \in Calls : ctx[j].at = "in"}
    IN  /\ lock' = i
        /\ env' = EnvAfterEnter(c)
        /\ ctx' = [j \in DOMAIN ctx |->
                     IF j = i THEN EnterCtx(c, inside)
                     ELSE IF j \in inside
                          THEN [ctx[j] EXCEPT !.overlapped = @ \cup {i}]
                          ELSE ctx[j]]
        /\ stages' = [stages EXCEPT ![i] = stg \o <<"inject", "execute">>]
        /\ pc' = [pc EXCEPT ![i] = "executing"]

\* The shared state a synchronous part wrote.
Commit(o) ==
    /\ audit' = o.audit
    /\ call_history' = o.call_history
    /\ failure_counts' = o.failure_counts
    /\ blocked_tools' = o.blocked_tools
    /\ db' = o.db
    /\ compliance' = o.compliance

\* The task of call i returns o.result (or lets an exception escape).
Complete(i, o) ==
    /\ pc' = [pc EXCEPT ![i] = o.next]
    /\ results' = [results EXCEPT ![i] = o.result]
    /\ stages' = [stages EXCEPT ![i] = o.stages]
    /\ finished' = Append(finished, i)

\* The event loop runs the task of call i for the first time (tasks start in
\* the order gather created them): everything up to the first suspension.
AdmitReady(i) ==
    /\ act_result = NotYet
    /\ pc[i] = "new"
    /\ \A j \in Calls : j < i => pc[j] # "new"

Admit(i) ==
    /\ AdmitReady(i)
    /\ LET o == Prefix(i) IN
       /\ Commit(o)
       /\ IF o.next = "lock"
          THEN /\ UNCHANGED <<results, finished>>
               /\ IF CanAcquire(i)
                  THEN EnterRegion(i, o.stages)
                  ELSE /\ pc' = [pc EXCEPT ![i] = "waiting"]
                       /\ stages' = [stages EXCEPT ![i] = o.stages]
                       /\ UNCHANGED <<lock, env, ctx>>
          ELSE /\ Complete(i, o)
               /\ UNCHANGED <<lock, env, ctx>>
    /\ UNCHANGED <<antibodies, db_path, imm_log, vault, role, tool_calls, memory,
                   act_result, agent_state, core_result, error_history, compVars>>

\* A task suspended in `async with self._secrets_lock` gets the lock.
AcquireReady(i) == pc[i] = "waiting" /\ CanAcquire(i)

Acquire(i) ==
    /\ AcquireReady(i)
    /\ EnterRegion(i, stages[i])
    /\ UNCHANGED <<failure_counts, call_history, blocked_tools, antibodies, db,
                   db_path, imm_log, vault, role, tool_calls, results, audit, compliance,
                   finished, memory, act_result, agent_state, core_result,
                   error_history, compVars>>

\* A region that an exception leaves without releasing the lock.
LeaveRegionKeepsLockOnRaise(i, how) ==
    /\ env' = Cleanup(ctx[i], how)
    /\ ctx' = [ctx EXCEPT ![i] = ExitCtx(ctx[i], how)]
    /\ lock' = IF how = "raise" THEN lock ELSE 0

\* Leaving `with inject_env_vars` and `async with self._secrets_lock`.
LeaveRegion(i, how) ==
    /\ env' = Cleanup(ctx[i], how)
    /\ ctx' = [ctx EXCEPT ![i] = ExitCtx(ctx[i], how)]
    /\ lock' = 0

\* Lines 312-342: the tool returned `output`.
SuccessPath(i, name, output) ==
    Outcome("done", Result("Success", Observation(name, output)),
            log_event(audit, AuditEntry("tool_result", i, name, "success",
                                        Observation(name, output)), "unknown"),
            call_history, [failure_counts EXCEPT ![name] = 0], blocked_tools, db,
            compliance,
            stages[i] \o <<"restore", "sanitize", "audit_end", "record_success">>)

\* The tool of call i returns: the rest of execute_tool runs to its return.
ToolReturns(i, output) ==
    /\ pc[i] = "executing"
    /\ LeaveRegion(i, "return")
    /\ LET o == SuccessPath(i, tool_calls[i].name, output) IN
       Commit(o) /\ Complete(i, o)
    /\ agent_state' = IF tool_calls[i].name \in special_tool_names
                      THEN "FINISHED" ELSE agent_state
    /\ UNCHANGED <<antibodies, db_path, imm_log, vault, role, tool_calls, memory,
                   act_result, core_result, error_history, compVars>>

\* The tool of call i raises: the context manager and the lock are left by
\* the exception, then the except clause runs.
ToolRaises(i) ==
    /\ pc[i] = "executing"
    /\ LeaveRegion(i, "raise")
    /\ LET o == ExceptPath(i, tool_calls[i].name, "ToolError", audit, call_history,
                           compliance, stages[i] \o <<"restore">>) IN
       Commit(o) /\ Complete(i, o)
    /\ UNCHANGED <<antibodies, db_path, imm_log, vault, role, tool_calls, memory,
                   act_result, agent_state, core_result, error_history, compVars>>

\* A gather that hands the results back in completion order.
GatherByCompletion == [i \in Calls |-> results[finished[i]]]
\* results = await asyncio.gather(*tasks): result i is the result of task i.
GatherResults == [i \in Calls |-> results[i]]

\* Message.tool_message; result[: self.max_observe] is the whole result for
\* the outputs of the model (max_observe is None, or 10000 in the subclasses).
ToolMessage(i, content) ==
    [tool_call_id |-> tool_calls[i].id, name |-> tool_calls[i].name, content |-> content]

\* Lines 205-224: gather returns once every task has returned (or raises the
\* first exception a task let escape); act() records the results and returns.
GatherReady ==
    /\ act_result = NotYet
    /\ \/ \E i \in Calls : pc[i] = "raised"
       \/ \A i \in Calls : pc[i] = "done"

Gather ==
    /\ GatherReady
    /\ IF \E i \in Calls : pc[i] = "raised"
       THEN /\ act_result' = Result("Raised", <<>>)
            /\ UNCHANGED memory
       ELSE /\ memory' = memory \o [i \in Calls |-> ToolMessage(i, GatherResults[i])]
            /\ act_result' = [kind |-> "Returned", text |-> GatherResults]
    /\ UNCHANGED <<failure_counts, call_history, blocked_tools, antibodies, db,
                   db_path, imm_log, env, vault, ctx, role, tool_calls, pc, results, lock,
                   audit, compliance, stages, finished, agent_state, core_result,
                   error_history, compVars>>

\* ---------------------------------------------- RecoveryManager, AgentCore
\* str(e) of the exceptions super().act() may let escape.
ErrorMsgs ==
    { <<"i", "n", "v", "a", "l", "i", "d", " ", "s", "y", "n", "t", "a", "x">>,
      <<"b", "a", "s", "h", " ", "t", "i", "m", "e", "d", " ", "o", "u", "t">>,
      <<"A", "c", "c", "e", "s", "s", " ", "d", "e", "n", "i", "e", "d">>,
      <<"n", "o", " ", "s", "u", "c", "h", " ", "f", "i", "l", "e">>,
      <<"s", "y", "n", "t", "a", "x", " ", "n", "o", "t", " ", "f", "o", "u", "n", "d">>,
      <<"b", "o", "o", "m">> }

\* _categorize_error: `word in error_msg.lower()` for the words of each
\* category, in the order of the code.
_categorize_error(error_msg) ==
    LET m == Lower(error_msg) IN
    IF \/ IsSub(<<"s", "y", "n", "t", "a", "x">>, m)
       \/ IsSub(<<"i", "n", "d", "e", "n", "t", "a", "t", "i", "o", "n">>, m)
    THEN "syntax"
    ELSE IF \/ IsSub(<<"t", "i", "m", "e", "o", "u", "t">>, m)
            \/ IsSub(<<"t", "i", "m", "e", "d", " ", "o", "u", "t">>, m)
    THEN "timeout"
    ELSE IF \/ IsSub(<<"p", "e", "r", "m", "i", "s", "s", "i", "o", "n">>, m)
            \/ IsSub(<<"a", "c", "c", "e", "s", "s", " ", "d", "e", "n", "i", "e", "d">>, m)
    THEN "permission"
    ELSE IF \/ IsSub(<<"n", "o", "t", " ", "f", "o", "u", "n", "d">>, m)
            \/ IsSub(<<"n", "o", " ", "s", "u", "c", "h", " ", "f", "i", "l", "e">>, m)
    THEN "not_found"
    ELSE "unknown"

RecoveryPlan(category, strategy, reasoning) ==
    [category |-> category, strategy |-> strategy, reasoning |-> reasoning]

\* error_history after analyze_error appended f"{tool_name}: {error_msg}".
history_after_error(error_msg, tool_name) ==
    Append(error_history, NameChars(tool_name) \o <<":", " ">> \o error_msg)

\* analyze_error, lines 62-109, on the history that already holds the new
\* entry.  `tool_name in e` selects the entries in which the name occurs.
analyze_error(error_msg, tool_name) ==
    LET category == _categorize_error(error_msg)
        hist == history_after_error(error_msg, tool_name)
        recent_errors == {k \in 1..Len(hist) : IsSub(NameChars(tool_name), hist[k])}
    IN  IF Cardinality(recent_errors) > 2
        THEN RecoveryPlan(category, "ask_user", "failed repeatedly")
        ELSE IF category = "syntax"
        THEN RecoveryPlan(category, "modify_args", "Syntax error detected.")
        ELSE IF category = "timeout"
        THEN RecoveryPlan(category, "retry_delay", "Operation timed out. Retrying with delay.")
        ELSE IF category = "permission"
        THEN RecoveryPlan(category, "ask_user", "Permission denied.")
        ELSE IF category = "not_found" /\ tool_name = "file_tool"
        THEN RecoveryPlan(category, "modify_args", "File not found.")
        ELSE RecoveryPlan(category, "retry", "Transient error suspected. Retrying.")

\* AgentCore.act, lines 353-381: the result built from the plan.
RecoveryResult(error_msg, plan) ==
    CASE plan.strategy \in {"retry", "modify_args"} ->
            Result("Recovered", <<"Error:", error_msg, "[System Advice]:", plan.reasoning>>)
      [] plan.strategy = "retry_delay" ->
            Result("Recovered", <<"Error:", error_msg, "[System Advice]:",
                                  "Operation timed out. Paused for 5s.", plan.reasoning>>)
      [] plan.strategy = "ask_user" ->
            Result("Recovered", <<"Error:", error_msg, "[System Advice]:",
                                  "CRITICAL FAILURE. Please ask the user for help.">>)
      [] OTHER -> Result("Recovered", <<"Error:", error_msg>>)

\* Lines 408-436 for `result`: the goals are satisfied (the agent finishes
\* and "Task Completed" is returned) or the result is returned.
\* analyze_error(error_msg, tool_name, args) is called on the manager.
AnalyzeError(error_msg, tool_name) ==
    /\ error_history' = history_after_error(error_msg, tool_name)
    /\ rec_log' = Append(rec_log, [tool |-> tool_name, msg |-> error_msg,
                                   plan |-> analyze_error(error_msg, tool_name)])

CoreReturns(result, is_satisfied) ==
    IF is_satisfied
    THEN /\ agent_state' = "FINISHED"
         /\ memory' = Append(memory,
                [tool_call_id |-> 0, name |-> "assistant",
                 content |-> Result("Assistant", <<"Task Completed">>)])
         /\ core_result' = Result("TaskCompleted", <<"Task Completed">>)
    ELSE /\ core_result' = result
         /\ UNCHANGED <<agent_state, memory>>

\* AgentCore.act after super().act() returned its results or raised an
\* exception whose str() is error_msg.  In the except branch
\* json.loads(current_calls[0].function.arguments or "{}") may itself raise,
\* and then act() raises.
CoreAct(error_msg, is_satisfied) ==
    /\ act_result # NotYet
    /\ core_result = NotYet
    /\ IF act_result.kind = "Returned"
       THEN /\ CoreReturns(act_result, is_satisfied)
            /\ UNCHANGED <<error_history, rec_log>>
       ELSE IF json_loads_fails(tool_calls[1].arguments)
       THEN /\ core_result' = Result("Raised", <<>>)
            /\ UNCHANGED <<agent_state, memory, error_history, rec_log>>
       ELSE /\ AnalyzeError(error_msg, tool_calls[1].name)
            /\ CoreReturns(RecoveryResult(error_msg,
                               analyze_error(error_msg, tool_calls[1].name)),
                           is_satisfied)
    /\ UNCHANGED <<failure_counts, call_history, blocked_tools, antibodies, db,
                   db_path, imm_log, env, vault, ctx, role, tool_calls, pc, results, lock,
                   audit, compliance, stages, finished, act_result, persVars, sbVars,
                   agVars>>

\* What the persistence file may hold when the agent is constructed.
DispDbs ==
    { NoDb,
      DbOf(<<"bash">>, <<re_escape(json_dumps(Args(NoVal, NoVal, Val(S_x))))>>) }

\* The environment and the vault file the agent runs with.
DispEnv ==
    [k \in EnvKeys |-> IF k = "GOOGLE_API_KEY" THEN "g-old" ELSE Absent]
DispVault ==
    [k \in EnvKeys |->
        CASE k = "SEARCH_API_KEY" -> "s-secret"
          [] k = "GOOGLE_API_KEY" -> "g-secret"
          [] k = "MCP_API_KEY"    -> "m-secret"
          [] OTHER                -> Absent]

Batches ==
    UNION { [1..n -> RequestKinds] : n \in 1..MaxBatch }

\* ToolCallAgent.__init__ and a batch chosen by think().
Init ==
    /\ ImmConstruct(DispDbs, {IMMUNITY_DB_PATH})
    /\ env = DispEnv
    /\ vault = DispVault
    /\ role \in Roles
    /\ \E b \in Batches :
         tool_calls = [i \in DOMAIN b |->
                         [id |-> i, name |-> b[i].name, arguments |-> b[i].arguments]]
    /\ pc = [i \in 1..Len(tool_calls) |-> "new"]
    /\ results = [i \in 1..Len(tool_calls) |-> NotYet]
    /\ ctx = [i \in 1..Len(tool_calls) |-> IdleCtx(<<>>)]
    /\ stages = [i \in 1..Len(tool_calls) |-> <<>>]
    /\ lock = 0
    /\ audit = <<>>
    /\ compliance = <<>>
    /\ finished = <<>>
    /\ memory = <<>>
    /\ act_result = NotYet
    /\ agent_state = "RUNNING"
    /\ core_result = NotYet
    /\ error_history = <<>>
    /\ rec_log = <<>>
    /\ agent_lock = [a \in Agents |-> 0]
    /\ PersIdle
    /\ SandboxInit

Next ==
    \/ \E i \in Calls : Admit(i)
    \/ \E i \in Calls : Acquire(i)
    \/ \E i \in Calls : \E output \in ToolOutputs(i) : ToolReturns(i, output)
    \/ \E i \in Calls : ToolRaises(i)
    \/ Gather
    \/ \E error_msg \in ErrorMsgs, is_satisfied \in BOOLEAN :
          CoreAct(error_msg, is_satisfied)

Spec == Init /\ [][Next]_vars

\* The event loop keeps running the tasks that can run, and every tool
\* invocation terminates (it returns or raises).
\* The batches followed to their end: an Enterprise agent with no
\* persistence file, calls that inject secrets, take the lock without
\* injecting, or are rejected before the lock.
LiveBatch ==
    /\ role = "enterprise"
    /\ db = NoDb
    /\ \A i \in Calls :
          \/ tool_calls[i].name \in {"search_tool", "mcp_tool"}
          \/ tool_calls[i].arguments = JsonObject(Args(NoVal, Val(CmdLs), NoVal))

InitLive == Init /\ LiveBatch

SpecLive == InitLive /\ [][Next]_vars /\ WF_vars(Next)

\* Some step of the batch can be taken (the guards of the actions of Next).
CanStep ==
    \/ \E i \in Calls : AdmitReady(i) \/ AcquireReady(i) \/ pc[i] = "executing"
    \/ GatherReady

\* ------------------------------------------- the components taken alone
\* No batch is dispatched.
NoBatch ==
    /\ role = "enterprise"
    /\ tool_calls = <<>>
    /\ pc = <<>>
    /\ results = <<>>
    /\ stages = <<>>
    /\ lock = 0
    /\ audit = <<>>
    /\ compliance = <<>>
    /\ finished = <<>>
    /\ memory = <<>>
    /\ act_result = NotYet
    /\ agent_state = "RUNNING"
    /\ core_result = NotYet
    /\ error_history = <<>>
    /\ rec_log = <<>>
    /\ agent_lock = [a \in Agents |-> 0]

\* A DigitalImmunitySystem instance driven through its public methods.
InitImmunity ==
    /\ ImmInit
    /\ PersIdle
    /\ SandboxInit
    /\ NoBatch
    /\ env = DispEnv
    /\ vault = DispVault
    /\ ctx = <<>>

NextImmunity ==
    \/ \E t \in ImmTools, a \in ImmArgs :
          OpsLeft /\ MonitorToolCall(t, a) /\ UNCHANGED <<secVars, dispVars, compVars>>
    \/ \E t \in ImmTools :
          OpsLeft /\ RecordFailure(t) /\ UNCHANGED <<secVars, dispVars, compVars>>
    \/ \E t \in ImmTools :
          OpsLeft /\ RecordSuccess(t) /\ UNCHANGED <<secVars, dispVars, compVars>>
    \/ \E t \in ImmTools, a \in ImmArgs :
          OpsLeft /\ LearnFromAttack(t, a) /\ UNCHANGED <<secVars, dispVars, compVars>>

SpecImmunity == InitImmunity /\ [][NextImmunity]_vars

\* A DockerSandbox instance driven through its public methods while the
\* commands it runs take their time.
InitSandbox ==
    /\ SandboxInit
    /\ ImmConstruct({NoDb}, {IMMUNITY_DB_PATH})
    /\ PersIdle
    /\ NoBatch
    /\ env = DispEnv
    /\ vault = DispVault
    /\ ctx = <<>>

NextSandbox ==
    \/ \E run_ok \in BOOLEAN, mkdir_ok \in BOOLEAN :
          SbStart(run_ok, mkdir_ok) /\ UNCHANGED <<immVars, persVars, secVars, dispVars, recVars, agVars>>
    \/ \E stop_ok \in BOOLEAN, remove_ok \in BOOLEAN :
          SbStop(stop_ok, remove_ok) /\ UNCHANGED <<immVars, persVars, secVars, dispVars, recVars, agVars>>
    \/ SbExecRefused /\ UNCHANGED <<immVars, persVars, secVars, dispVars, recVars, agVars>>
    \/ \E timeout \in 0..(MaxTime - 1), duration \in 1..MaxTime :
          SbExecStarts(timeout, duration) /\ UNCHANGED <<immVars, persVars, secVars, dispVars, recVars, agVars>>
    \/ SbTick /\ UNCHANGED <<immVars, persVars, secVars, dispVars, recVars, agVars>>
    \/ \E api_ok \in BOOLEAN :
          SbExecEnds(api_ok) /\ UNCHANGED <<immVars, persVars, secVars, dispVars, recVars, agVars>>
    \/ \E api_ok \in BOOLEAN :
          SbFileOp("read_file", "get_archive", api_ok)
          /\ UNCHANGED <<immVars, persVars, secVars, dispVars, recVars, agVars>>
    \/ \E api_ok \in BOOLEAN :
          SbFileOp("write_file", "put_archive", api_ok)
          /\ UNCHANGED <<immVars, persVars, secVars, dispVars, recVars, agVars>>
    \/ \E remove_ok \in BOOLEAN :
          SbDel(remove_ok) /\ UNCHANGED <<immVars, persVars, secVars, dispVars, recVars, agVars>>

SpecSandbox == InitSandbox /\ [][NextSandbox]_vars

\* A RecoveryManager whose analyze_error is called with the failures of two
\* tools.
InitRecovery ==
    /\ ImmConstruct({NoDb}, {IMMUNITY_DB_PATH})
    /\ PersIdle
    /\ SandboxInit
    /\ NoBatch
    /\ env = DispEnv
    /\ vault = DispVault
    /\ ctx = <<>>

NextRecovery ==
    \E error_msg \in ErrorMsgs, tool_name \in {"bash", "file_tool"} :
        /\ Len(rec_log) < MaxErrors
        /\ AnalyzeError(error_msg, tool_name)
        /\ UNCHANGED <<immVars, persVars, secVars, sbVars, agVars, role, tool_calls, pc,
                       results, lock, audit, compliance, stages, finished, memory,
                       act_result, agent_state, core_result>>

SpecRecovery == InitRecovery /\ [][NextRecovery]_vars

\* Two ToolCallAgent instances of one process (one event loop, one
\* os.environ), each running execute_tool calls that passed the gates.  Call c
\* belongs to agent ((c - 1) % 2) + 1; each __init__ made a lock of its own.
AgentCallIds == 1..(2 * CallsPerAgent)

AgentTools == {"bash", "search_tool", "mcp_tool"}

InitAgents ==
    /\ ImmConstruct({NoDb}, {IMMUNITY_DB_PATH})
    /\ PersIdle
    /\ SandboxInit
    /\ NoBatch
    /\ env = DispEnv
    /\ vault = DispVault
    /\ ctx \in [AgentCallIds -> {IdleCtx(TOOL_REQUIRED_SECRETS(t)) : t \in AgentTools}]

\* Lines 308-310 for call c: `async with self._secrets_lock` gets the lock of
\* the call's own agent, inject_env_vars is entered, and the task is
\* suspended in `await self.available_tools.execute`.
AgentEnters(c) ==
    /\ ctx[c].at = "out"
    /\ agent_lock[((c - 1) % 2) + 1] = 0
    /\ agent_lock' = [agent_lock EXCEPT ![((c - 1) % 2) + 1] = c]
    /\ LET inside == {d \in AgentCallIds : ctx[d].at = "in"} IN
       ctx' = [d \in AgentCallIds |->
                 IF d = c THEN EnterCtx(ctx[c], inside)
                 ELSE IF d \in inside
                      THEN [ctx[d] EXCEPT !.overlapped = @ \cup {c}]
                      ELSE ctx[d]]
    /\ env' = EnvAfterEnter(ctx[c])
    /\ UNCHANGED <<vault, immVars, dispVars, persVars, sbVars, recVars>>

\* The tool of call c returns or raises (how): the `with` block and the
\* `async with` block are left.
AgentLeaves(c, how) ==
    /\ ctx[c].at = "in"
    /\ env' = Cleanup(ctx[c], how)
    /\ ctx' = [ctx EXCEPT ![c] = ExitCtx(ctx[c], how)]
    /\ agent_lock' = [agent_lock EXCEPT ![((c - 1) % 2) + 1] = 0]
    /\ UNCHANGED <<vault, immVars, dispVars, persVars, sbVars, recVars>>

NextAgents ==
    \/ \E c \in AgentCallIds : AgentEnters(c)
    \/ \E c \in AgentCallIds : AgentLeaves(c, "return")
    \/ \E c \in AgentCallIds : AgentLeaves(c, "raise")

SpecAgents == InitAgents /\ [][NextAgents]_vars

\* One tool of a DigitalImmunitySystem instance that starts with no
\* persistence file, through enough operations to cross the threshold.
FailTool == "bash"

FailOpsLeft == Len(imm_log) < MaxFailOps

InitBlocking ==
    /\ ImmConstruct({NoDb}, {IMMUNITY_DB_PATH})
    /\ PersIdle
    /\ SandboxInit
    /\ NoBatch
    /\ env = DispEnv
    /\ vault = DispVault
    /\ ctx = <<>>

NextBlocking ==
    \/ FailOpsLeft /\ MonitorToolCall(FailTool, Args(NoVal, Val(CmdLs), NoVal))
          /\ UNCHANGED <<secVars, dispVars, compVars>>
    \/ FailOpsLeft /\ RecordFailure(FailTool) /\ UNCHANGED <<secVars, dispVars, compVars>>
    \/ FailOpsLeft /\ RecordSuccess(FailTool) /\ UNCHANGED <<secVars, dispVars, compVars>>
    \/ FailOpsLeft /\ LearnFromAttack(FailTool, Args(NoVal, Val(CmdLs), NoVal))
          /\ UNCHANGED <<secVars, dispVars, compVars>>

SpecBlocking == InitBlocking /\ [][NextBlocking]_vars

\* A DigitalImmunitySystem instance whose mutations are followed system call
\* by system call, while a second process may construct an instance on the
\* same path.
InitPersist ==
    /\ ImmConstruct(StartDbs, DbPaths)
    /\ PersIdle
    /\ SandboxInit
    /\ NoBatch
    /\ env = DispEnv
    /\ vault = DispVault
    /\ ctx = <<>>

NextPersist ==
    \/ FailOpsLeft /\ FailureBeginsSave(FailTool)
          /\ UNCHANGED <<secVars, dispVars, sbVars, recVars, agVars>>
    \/ FailOpsLeft /\ LearnBeginsSave(FailTool, Args(NoVal, Val(CmdLs), NoVal))
          /\ UNCHANGED <<secVars, dispVars, sbVars, recVars, agVars>>
    \/ FailOpsLeft /\ SaveBegins /\ UNCHANGED <<secVars, dispVars, sbVars, recVars, agVars>>
    \/ SaveFlushes /\ UNCHANGED <<secVars, dispVars, sbVars, recVars, agVars>>
    \/ SaveCloses /\ UNCHANGED <<secVars, dispVars, sbVars, recVars, agVars>>
    \/ ReaderLoads /\ UNCHANGED <<secVars, dispVars, sbVars, recVars, agVars>>
    \/ ReaderSaves /\ UNCHANGED <<secVars, dispVars, sbVars, recVars, agVars>>

SpecPersist == InitPersist /\ [][NextPersist]_vars

\* Two callers of SecretsManager.inject_env_vars that may overlap in time
\* (nothing in SecretsManager serializes them).
Callers == {1, 2}

InjKeys == {"SEARCH_API_KEY", "GOOGLE_API_KEY", "MCP_API_KEY"}

KeyLists == UNION { [1..n -> InjKeys] : n \in 0..MaxKeys }

SecEnvs ==
    { [k \in EnvKeys |-> IF k \in present THEN "old" ELSE Absent] :
        present \in SUBSET InjKeys }

\* secrets.json: one secret, one empty value, nothing for the other keys.
SecVault ==
    [k \in EnvKeys |->
        CASE k = "SEARCH_API_KEY" -> "s-secret"
          [] k = "GOOGLE_API_KEY" -> ""
          [] OTHER                -> Absent]

InitSecrets ==
    /\ ImmConstruct({NoDb}, {IMMUNITY_DB_PATH})
    /\ PersIdle
    /\ SandboxInit
    /\ NoBatch
    /\ env \in SecEnvs
    /\ vault = SecVault
    /\ ctx \in [Callers -> {IdleCtx(keys) : keys \in KeyLists}]

\* `with sm.inject_env_vars(keys):` is entered by caller c.
SecEnter(c) ==
    /\ ctx[c].at = "out"
    /\ LET inside == {d \in Callers : ctx[d].at = "in"} IN
       ctx' = [d \in Callers |->
                 IF d = c THEN EnterCtx(ctx[c], inside)
                 ELSE IF d \in inside
                      THEN [ctx[d] EXCEPT !.overlapped = @ \cup {c}]
                      ELSE ctx[d]]
    /\ env' = EnvAfterEnter(ctx[c])
    /\ UNCHANGED <<vault, immVars, dispVars, compVars>>

\* The body of caller c returns or raises (how): the finally block runs.
SecExit(c, how) ==
    /\ ctx[c].at = "in"
    /\ env' = Cleanup(ctx[c], how)
    /\ ctx' = [ctx EXCEPT ![c] = ExitCtx(ctx[c], how)]
    /\ UNCHANGED <<vault, immVars, dispVars, compVars>>

NextSecrets ==
    \/ \E c \in Callers : SecEnter(c)
    \/ \E c \in Callers : SecExit(c, "return")
    \/ \E c \in Callers : SecExit(c, "raise")

SpecSecrets == InitSecrets /\ [][NextSecrets]_vars

\* =================================================================== claims
Ran(i, stage) == \E k \in 1..Len(stages[i]) : stages[i][k] = stage

Parsed(i) == ~ json_loads_fails(tool_calls[i].arguments)
ArgsOf(i) == json_loads(tool_calls[i].arguments)
NameOf(i) == tool_calls[i].name

\* The stages that reject a call, and the stages that may only follow a pass.
RejectStages == {"ethical_guard:blocked", "immunity:deny", "rbac:deny"}
LateStages == {"inject", "execute", "restore", "sanitize", "record_success",
               "record_failure"}

\* C1: a tool is executed only if its arguments parsed, the content policy
\* accepted them, the immunity gate allowed the call and RBAC returned true;
\* a rejecting stage is the last stage that runs for its call, so neither
\* secret injection nor execution nor record_success/record_failure follows.
C1_GatesBeforeExecution ==
    \A i \in Calls :
        /\ Ran(i, "execute") =>
              /\ Parsed(i)
              /\ check_tool_args(NameOf(i), ArgsOf(i))
              /\ Ran(i, "immunity:allow")
              /\ check_permission(role, NameOf(i), InferAction(NameOf(i), ArgsOf(i)),
                                  ArgsOf(i)) = Ret(TRUE)
        /\ \A k \in 1..Len(stages[i]) :
              stages[i][k] \in RejectStages =>
                 /\ k = Len(stages[i])
                 /\ pc[i] = "done"
                 /\ \A st \in LateStages : ~ Ran(i, st)
        /\ ~ Parsed(i) => stages[i] = <<>>

\* A call was rejected by the immunity gate after the content policy passed
\* it, and another call of the batch was executed.
C1_Witness ==
    \E i, j \in Calls :
        /\ Ran(i, "immunity:deny") /\ pc[i] = "done"
        /\ Ran(j, "execute") /\ pc[j] = "done"

\* C2: a call that RBAC denies returns PermissionDenied, its tool is never
\* executed and no call-end audit entry with status success exists for it.
C2_RbacDenied ==
    \A i \in Calls :
        Ran(i, "rbac:deny") =>
            /\ results[i].kind = "PermissionDenied"
            /\ ~ Ran(i, "execute")
            /\ \A k \in 1..Len(audit) :
                  ~ (audit[k].call = i /\ audit[k].event_type = "tool_result"
                     /\ audit[k].result_status = "success")

\* A denied call whose batch has returned, next to a call that succeeded.
C2_Witness ==
    /\ act_result.kind = "Returned"
    /\ \E i, j \in Calls :
          /\ Ran(i, "rbac:deny")
          /\ results[j].kind = "Success"

\* Does the command of call i contain a blocked command ?
HasBlockedCommand(i) ==
    /\ NameOf(i) \in {"shell", "bash"}
    /\ NameOf(i) \in tool_map
    /\ Parsed(i)
    /\ ArgsOf(i)["command"].has
    /\ \E b \in 1..Len(BLOCKED_COMMANDS) : IsSub(BLOCKED_COMMANDS[b], ArgsOf(i)["command"].s)

\* C3: a shell/bash call whose command contains a blocked command returns
\* SecurityBlocked and is never executed; the result does not depend on the
\* role or on the immunity state (it is one fixed value for the command).
C3_BlockedCommand ==
    \A i \in Calls :
        (HasBlockedCommand(i) /\ pc[i] # "new") =>
            /\ results[i] = Result("SecurityBlocked",
                                   <<"Error: Command blocked by safety policy:",
                                     BlockedText(FirstBlocked(ArgsOf(i)))>>)
            /\ pc[i] = "done"
            /\ ~ Ran(i, "execute")
            /\ ~ Ran(i, "immunity:allow") /\ ~ Ran(i, "immunity:deny")

\* "rm -rf /" was submitted by a Free user while bash is blacklisted.
C3_Witness ==
    \E i \in Calls :
        /\ HasBlockedCommand(i) /\ pc[i] = "done"
        /\ role = "free"
        /\ "bash" \in Range(blocked_tools)

\* The allow-list of the claim.
ClaimedAllowList ==
    { <<"l", "s">>, <<"c", "d">>, <<"p", "w", "d">>, <<"c", "a", "t">>,
      <<"e", "c", "h", "o">>, <<"m", "k", "d", "i", "r">>,
      <<"t", "o", "u", "c", "h">>, <<"w", "h", "o", "a", "m", "i">>,
      <<"d", "a", "t", "e">> }

\* Commands with a first token: every allow-listed binary with an argument,
\* and some others.
SampleCommands ==
    {w \o <<" ", "x">> : w \in ClaimedAllowList}
    \cup {<<" ">> \o w : w \in ClaimedAllowList}
    \cup {CmdLs, CmdCurl, <<"l", "s", "x">>, <<"c", "u", "r", "l">>,
          <<"x", " ", "l", "s">>, <<"L", "s">>}

\* C4: a Free exec call on shell/bash is authorized only if the first token
\* of its command is in the allow-list; any other command is denied and
\* never executed; Pro and Enterprise are not restricted by the allow-list.
\* The first conjunct is about check_permission alone, on a table of commands;
\* it does not depend on the state, so it is evaluated in the states in which
\* no call has completed yet.  The second is about the calls of the batch.
C4_FreeShellAllowList ==
    /\ finished = <<>> =>
       \A cmd \in SampleCommands : \A res \in {"shell", "bash"} :
          LET a == Args(NoVal, Val(cmd), NoVal) IN
          /\ check_permission("free", res, "exec", a)
                = Ret(FirstToken(cmd) \in ClaimedAllowList)
          /\ check_permission("pro", res, "exec", a) = Ret(TRUE)
          /\ check_permission("enterprise", res, "exec", a) = Ret(TRUE)
    /\ \A i \in Calls :
          (/\ NameOf(i) \in {"shell", "bash"}
           /\ Parsed(i)
           /\ ArgsOf(i)["command"].has
           /\ HasFirstToken(ArgsOf(i)["command"].s)
           /\ InferAction(NameOf(i), ArgsOf(i)) = "exec"
           /\ Ran(i, "immunity:allow")) =>
              IF role = "free" /\ FirstToken(ArgsOf(i)["command"].s) \notin ClaimedAllowList
              THEN /\ results[i].kind = "PermissionDenied"
                   /\ ~ Ran(i, "execute")
              ELSE Ran(i, "rbac:allow")

\* A Free batch in which "curl x" was denied and "ls -la" was executed.
C4_Witness ==
    /\ role = "free"
    /\ \E i, j \in Calls :
          /\ ArgsOf(i)["command"] = Val(CmdCurl) /\ results[i].kind = "PermissionDenied"
          /\ ArgsOf(j)["command"] = Val(CmdLs) /\ Ran(j, "execute")

ErrorKinds == {"InvalidCommand", "UnknownTool", "InvalidArgument", "SecurityBlocked",
               "ImmunityBlocked", "PermissionDenied", "ToolExecutionError"}

\* C5: a call that a gate rejects, or whose gate or tool raises, ends with
\* an error result of its own; no exception escapes execute_tool or act, the
\* batch can always go on until act returns, and then every call has its result.
C5_FailuresAreResults ==
    /\ \A i \in Calls :
          /\ pc[i] # "raised"
          /\ (pc[i] = "done" /\ ~ Ran(i, "record_success")) => results[i].kind \in ErrorKinds
          /\ (pc[i] = "done" /\ Ran(i, "record_success")) => results[i].kind = "Success"
    /\ act_result.kind # "Raised"
    /\ act_result = NotYet => CanStep
    /\ act_result.kind = "Returned" =>
          \A i \in Calls : pc[i] = "done" /\ results[i] # NotYet

\* The batch returned, one call's tool having raised, or its RBAC check,
\* and the other call having succeeded after it.
C5_Witness ==
    /\ act_result.kind = "Returned"
    /\ \E i, j \in Calls :
          /\ results[i].kind = "ToolExecutionError"
          /\ results[j].kind = "Success"
          /\ finished = <<i, j>>

\* C6: a call whose tool declares no required secrets is never blocked by
\* the secret-injection critical section.
C6_NoSecretsNeverWaits ==
    \A i \in Calls :
        pc[i] = "waiting" => TOOL_REQUIRED_SECRETS(NameOf(i)) # <<>>

\* The calls inside the scoped-injection region.
InRegion == {i \in Calls : ctx[i].at = "in"}

\* C7: at most one call at a time is inside the scoped secret-injection
\* region of one dispatcher.
C7_RegionExclusive ==
    /\ Cardinality(InRegion) <= 1
    /\ \A i \in InRegion : lock = i /\ pc[i] = "executing"
    /\ \A i \in Calls : pc[i] = "executing" => i \in InRegion

\* A call with injected secrets is inside the region, another that also
\* needs secrets is waiting for it.
C7_Witness ==
    \E i, j \in Calls :
        /\ ctx[i].at = "in" /\ ctx[i].injected_keys # <<>>
        /\ pc[j] = "waiting" /\ TOOL_REQUIRED_SECRETS(NameOf(j)) # <<>>

\* C9: a batch of N calls returns N results, and result i (and tool message
\* i) is the result of call i, whatever the completion order.
C9_ResultsInRequestOrder ==
    act_result.kind = "Returned" =>
        /\ Len(act_result.text) = Len(tool_calls)
        /\ Len(memory) >= Len(tool_calls)
        /\ \A i \in Calls :
              /\ act_result.text[i] = results[i]
              /\ memory[i].tool_call_id = tool_calls[i].id
              /\ memory[i].content = results[i]
              /\ (results[i].kind = "Success" /\ ~ Ran(i, "execute")) => FALSE
              /\ (results[i].kind = "Success"
                  /\ results[i].text[1] # "Cmd") => results[i].text[1] = OutTag(i)

\* The second call completed (with a rejection) while the first was still
\* executing; the first then returned an output of its own.  (Two executed
\* calls complete in request order: the lock serializes every execution.)
C9_Witness ==
    /\ act_result.kind = "Returned"
    /\ Len(finished) >= 2
    /\ finished[1] > finished[2]
    /\ results[finished[1]].kind \in ErrorKinds
    /\ results[finished[2]].kind = "Success"
    /\ results[finished[2]].text[1] = OutTag(finished[2])

Distinct(q) == \A a, b \in 1..Len(q) : q[a] = q[b] => a = b

\* The keys of the calls that were inside their region while c was.
OverlapKeys(c) == UNION {Range(ctx[d].keys) : d \in ctx[c].overlapped}

\* C8: for a list of distinct keys, inside inject_env_vars every key for
\* which a secret resolves holds the resolved value; after the exit (by
\* return or by an exception in the body) every key of the call is as before
\* the call (absent again, or back at its previous value), and so is every
\* key that no overlapping call works on; this holds when the calls that
\* overlap in time have disjoint key sets.
C8_ScopedInjection ==
    \A c \in DOMAIN ctx :
        (Distinct(ctx[c].keys) /\ Range(ctx[c].keys) \cap OverlapKeys(c) = {}) =>
            /\ ctx[c].at = "in" =>
                  \A k \in Range(ctx[c].keys) :
                      Truthy(get_secret(ctx[c].pre, k)) =>
                          env[k] = get_secret(ctx[c].pre, k)
            /\ ctx[c].at = "exited" =>
                  \A k \in EnvKeys \ OverlapKeys(c) : ctx[c].post[k] = ctx[c].pre[k]

\* Two calls on disjoint keys overlapped; one injected a key that was absent
\* and left by an exception, the other injected over a previous value.
C8_Witness ==
    \E c, d \in DOMAIN ctx :
        /\ c # d /\ d \in ctx[c].overlapped
        /\ Distinct(ctx[c].keys) /\ Distinct(ctx[d].keys)
        /\ Range(ctx[c].keys) \cap Range(ctx[d].keys) = {}
        /\ ctx[c].at = "exited" /\ ctx[c].exit = "raise"
        /\ ctx[d].at = "exited" /\ ctx[d].exit = "return"
        /\ \E k \in Range(ctx[c].injected_keys) : ctx[c].pre[k] = Absent
        /\ \E k \in Range(ctx[d].injected_keys) : ctx[d].pre[k] = "old"

\* C10: from a fresh instance, four consecutive monitor_tool_call calls with
\* the same tool and arguments (tool not blocked, no antibody matching)
\* return allow, allow, allow, deny.
C10_FourIdenticalCalls ==
    \A k \in 1..4 :
        (/\ Len(imm_log) >= k
         /\ \A m \in 1..k :
               /\ imm_log[m].op = "monitor_tool_call"
               /\ imm_log[m].tool = imm_log[1].tool
               /\ imm_log[m].args = imm_log[1].args
               /\ imm_log[m].clean) =>
            imm_log[k].ret = (k < 4)

\* Four identical calls were made and the fourth was denied.
C10_Witness ==
    /\ Len(imm_log) = 4
    /\ \A m \in 1..4 :
          /\ imm_log[m].op = "monitor_tool_call"
          /\ imm_log[m].tool = imm_log[1].tool
          /\ imm_log[m].args = imm_log[1].args
          /\ imm_log[m].clean
    /\ ~ imm_log[4].ret

\* The number of record_failure calls for tool t among the first n operations
\* of the log that follow the last record_success for t among them.
RECURSIVE FailuresSince(_, _)
FailuresSince(t, n) ==
    IF n = 0 THEN 0
    ELSE IF imm_log[n].tool # t THEN FailuresSince(t, n - 1)
    ELSE IF imm_log[n].op = "record_success" THEN 0
    ELSE IF imm_log[n].op = "record_failure" THEN FailuresSince(t, n - 1) + 1
    ELSE FailuresSince(t, n - 1)

\* C11: a tool is in blocked_tools exactly when some record_failure for it
\* was the 6th since its last record_success (or since the start): with 5 or
\* fewer it is not blocked, and record_success sets the counter back to zero.
C11_BlockedAtSixthFailure ==
    \A t \in ToolNames :
        /\ failure_counts[t] = FailuresSince(t, Len(imm_log))
        /\ t \in Range(blocked_tools) <=>
              \E n \in 1..Len(imm_log) :
                  /\ imm_log[n].op = "record_failure" /\ imm_log[n].tool = t
                  /\ FailuresSince(t, n) = 6

\* A success, then six failures: the sixth blocked the tool (and the save
\* wrote it to the persistence file).
C11_Witness ==
    /\ Len(imm_log) = 7
    /\ imm_log[1].op = "record_success"
    /\ \A n \in 2..7 : imm_log[n].op = "record_failure"
    /\ blocked_tools = <<FailTool>>
    /\ db = DbOf(<<FailTool>>, <<>>)

\* The operation a step appended to the log.
LastOp == imm_log'[Len(imm_log')]

\* C12: no operation removes a tool from blocked_tools (the list only grows
\* at its end), and a monitor_tool_call for a tool that is in blocked_tools
\* is denied whatever its arguments.
C12_BlockedToolsOnlyGrows ==
    [][ /\ Len(blocked_tools') >= Len(blocked_tools)
        /\ SubSeq(blocked_tools', 1, Len(blocked_tools)) = blocked_tools
        /\ (/\ Len(imm_log') = Len(imm_log) + 1
            /\ LastOp.op = "monitor_tool_call"
            /\ LastOp.tool \in Range(blocked_tools)) => ~ LastOp.ret ]_vars

\* Six failures blocked the tool; the call monitored next, with arguments
\* never seen before, was denied.
C12_Witness ==
    /\ Len(imm_log) = 7
    /\ \A n \in 1..6 : imm_log[n].op = "record_failure"
    /\ imm_log[7].op = "monitor_tool_call"
    /\ imm_log[7].args = Args(NoVal, Val(CmdLs), NoVal)
    /\ ~ imm_log[7].ret
    /\ blocked_tools = <<FailTool>>

\* C20: every call that ends in an error result of any category has at
\* least one audit entry appended during that call.
C20_ErrorsAudited ==
    \A i \in Calls :
        (pc[i] = "done" /\ results[i].kind \in ErrorKinds) =>
            \E k \in 1..Len(audit) : audit[k].call = i

\* C13: the persistence file is replaced atomically: a reader that loads it
\* at any moment, also while a save is in progress, finds the whole previous
\* or the whole new state, never an empty or partial file.
C13_AtomicReplace ==
    reader.loaded => reader.file.torn = "no"

\* A call of the instance returns in this step, and it changed one of the
\* two persistent lists (in this step, or before its save began).
MutatingCallReturns ==
    /\ save_pc' = "idle"
    /\ \/ save_pc # "idle"
       \/ blocked_tools' # blocked_tools
       \/ antibodies' # antibodies

\* C14: whenever record_failure adds a tool to blocked_tools, or
\* learn_from_attack (add_antibody) adds an antibody, the persistence file
\* holds the whole updated state by the time the call returns.
C14_PersistedOnReturn ==
    [][ MutatingCallReturns => db' = DbOf(blocked_tools', antibodies') ]_vars

\* The monitor_tool_call logged at n was denied by an antibody (its tool is
\* not blacklisted), and every antibody that matches its arguments was
\* learned by a learn_from_attack logged before n.
DeniedByLearnedAntibody(n) ==
    /\ imm_log[n].op = "monitor_tool_call"
    /\ ~ imm_log[n].clean
    /\ imm_log[n].tool \notin Range(blocked_tools)
    /\ \A a \in 1..Len(antibodies) :
          re_search(antibodies[a], json_dumps(imm_log[n].args)) =>
              \E m \in 1..(n - 1) :
                  /\ imm_log[m].op = "learn_from_attack"
                  /\ re_escape(json_dumps(imm_log[m].args)) = antibodies[a]

\* C15: an antibody learned from an attack denies a later call only when the
\* call is an exact repeat of the attack: the same tool with the same
\* canonical arguments.
C15_AntibodyDeniesExactRepeat ==
    \A n \in 1..Len(imm_log) :
        DeniedByLearnedAntibody(n) =>
            \E m \in 1..(n - 1) :
                /\ imm_log[m].op = "learn_from_attack"
                /\ imm_log[m].tool = imm_log[n].tool
                /\ imm_log[m].args = imm_log[n].args

\* C16: a command that exec_run was given a timeout for never runs longer
\* than that timeout: it is killed and exec_run returns a timeout error.
C16_ExecKilledAtTimeout ==
    (sb_exec.running /\ sb_exec.timeout # 0) =>
        ~ check_timeout(sb_exec.elapsed, 0, sb_exec.timeout)

\* C17: Stopped is terminal: once stop() has stopped a started sandbox, the
\* instance never holds a container again, whatever is called on it.
C17_StoppedIsTerminal ==
    (\E n \in 1..Len(sb_ops) : sb_ops[n].op = "stop" /\ sb_ops[n].container # 0) =>
        sb_container = 0

\* C18: every stop() of a started sandbox attempts to remove its container,
\* also when stopping the container failed.
C18_StopAlwaysRemoves ==
    \A n \in 1..Len(sb_ops) :
        (sb_ops[n].op = "stop" /\ sb_ops[n].container # 0) =>
            \E k \in 1..Len(sb_calls) :
                sb_calls[k].api = "remove" /\ sb_calls[k].id = sb_ops[n].container

\* The tool of call i raised while it was executed.
ToolRaised(i) ==
    /\ pc[i] = "done"
    /\ Ran(i, "execute")
    /\ results[i].kind = "ToolExecutionError"

\* C19: once act() has returned, for every call whose tool raised during
\* execution RecoveryManager.analyze_error was invoked for that tool, so its
\* error history has an entry for the tool; and the failure is audited.
C19_RaiseInvokesRecovery ==
    core_result # NotYet =>
        \A i \in Calls :
            ToolRaised(i) =>
                /\ \E k \in 1..Len(error_history) :
                      IsSub(NameChars(tool_calls[i].name), error_history[k])
                /\ \E k \in 1..Len(audit) :
                      audit[k].call = i /\ audit[k].event_type = "tool_result"

\* A text in which Sanitizer.sanitize finds nothing more to replace.
IsSanitized(text) == \A j \in 1..Len(text) : SanitizeSeg(text[j]) = text[j]

\* C21: no audit entry holds tool output or error text that has not passed
\* through the sanitizer: every payload written, on the success path and on
\* the error path, is free of secret-shaped values.
C21_AuditPayloadsSanitized ==
    \A k \in 1..Len(audit) : IsSanitized(audit[k].payload)

\* C22: the result returned for a call that reached execution, whether the
\* tool returned or raised, has been sanitized.
C22_ExecutedResultsSanitized ==
    \A i \in Calls :
        (pc[i] = "done" /\ Ran(i, "execute")) => IsSanitized(results[i].text)

\* Entries k and l of the log hold the same value under one of the two
\* correlation keys, and no entry of another call holds that value under it.
PairedByKey(k, l) ==
    \/ /\ audit[k].task_id = audit[l].task_id
       /\ \A n \in 1..Len(audit) :
             audit[n].call # audit[k].call => audit[n].task_id # audit[k].task_id
    \/ /\ audit[k].trace_id = audit[l].trace_id
       /\ \A n \in 1..Len(audit) :
             audit[n].call # audit[k].call => audit[n].trace_id # audit[k].trace_id

\* C25: the call-start and the call-end entry of one call carry the same
\* correlation key (task_id or trace_id), and the entries of the other calls
\* of the batch do not carry it.
C25_StartEndShareKey ==
    \A k, l \in 1..Len(audit) :
        (/\ audit[k].event_type = "tool_call"
         /\ audit[l].event_type = "tool_result"
         /\ audit[k].call = audit[l].call) => PairedByKey(k, l)

\* Call i, a known tool with malformed JSON arguments, is dispatched in
\* this step.
MalformedDispatched(i) ==
    /\ pc[i] = "new" /\ pc'[i] # "new"
    /\ tool_calls[i].name \in tool_map
    /\ json_loads_fails(tool_calls[i].arguments)

\* C26: a call with malformed JSON arguments gets its InvalidArgument result
\* in the step that dispatches it; no stage runs for it, and the immunity
\* state, the audit log and the process environment stay as they were.
C26_MalformedJsonChangesNothing ==
    [][ \A i \in Calls :
          MalformedDispatched(i) =>
              /\ pc'[i] = "done"
              /\ results'[i].kind = "InvalidArgument"
              /\ stages'[i] = <<>>
              /\ UNCHANGED <<call_history, failure_counts, blocked_tools, antibodies,
                             db, env, audit, compliance, lock>> ]_vars

\* A malformed call got its result after another call of the batch was
\* admitted, and none of its stages ran.
C26_Witness ==
    \E i, j \in Calls :
        /\ i # j
        /\ pc[i] = "done" /\ json_loads_fails(tool_calls[i].arguments)
        /\ results[i].kind = "InvalidArgument"
        /\ stages[i] = <<>>
        /\ Ran(j, "audit_start")
        /\ finished[Len(finished)] = i

\* A fresh instance is constructed on the file in this step, right after a
\* save_immunity_db() of the instance has returned.
LoadsAfterSave ==
    /\ ~ reader.loaded /\ reader'.loaded
    /\ save_pc = "idle"
    /\ imm_log # <<>>
    /\ imm_log[Len(imm_log)].op = "save_immunity_db"

\* C27: a fresh instance constructed from the file after a save has the
\* blocked_tools and the antibodies of the instance that saved.
C27_SaveLoadRoundTrip ==
    [][ LoadsAfterSave =>
          /\ reader'.blocked_tools = blocked_tools
          /\ reader'.antibodies = antibodies ]_vars

\* stop() is called in this step on an instance that holds no container.
StopWithoutContainer ==
    /\ Len(sb_ops') = Len(sb_ops) + 1
    /\ sb_ops'[Len(sb_ops')].op = "stop"
    /\ sb_container = 0

\* C28: stop() on a stopped or never started sandbox returns without an
\* exception, issues no container operation and changes nothing.
C28_StopIdempotent ==
    [][ StopWithoutContainer =>
          /\ sb_ops'[Len(sb_ops')].ret = "returned"
          /\ UNCHANGED <<sb_container, docker, sb_calls, sb_exec>> ]_vars

\* A started sandbox was stopped, and stop() was called on it once more.
C28_Witness ==
    /\ Len(sb_ops) = 3
    /\ sb_ops[1].op = "start" /\ sb_ops[1].ret = "returned"
    /\ sb_ops[2].op = "stop" /\ sb_ops[2].container # 0
    /\ sb_ops[3] = SbOp("stop", 0, "returned")
    /\ sb_container = 0

\* The monitor_tool_call calls made on the instance, in order.
MonitorCalls == SelectSeq(imm_log, LAMBDA e : e.op = "monitor_tool_call")

\* C29: a call to a tool that is not blocked, with arguments no antibody
\* matches, is denied only when it is the fourth consecutive call with the
\* same tool and arguments.
C29_DeniedOnlyAtFourthRepeat ==
    \A k \in 1..Len(MonitorCalls) :
        (MonitorCalls[k].clean /\ ~ MonitorCalls[k].ret) =>
            /\ k >= 4
            /\ \A j \in (k - 3)..k :
                  /\ MonitorCalls[j].tool = MonitorCalls[k].tool
                  /\ MonitorCalls[j].args = MonitorCalls[k].args

\* check_permission was called for call i.
RbacChecked(i) ==
    Ran(i, "rbac:allow") \/ Ran(i, "rbac:deny") \/ Ran(i, "rbac:raise")

\* C30: every check_permission call the dispatcher made returned a boolean
\* (it did not raise), and for a bash call whose command has no token it
\* returned False.
C30_CheckPermissionReturnsBool ==
    \A i \in Calls :
        RbacChecked(i) =>
            LET perm == check_permission(role, NameOf(i),
                                         InferAction(NameOf(i), ArgsOf(i)), ArgsOf(i))
            IN  /\ ~ perm.raised
                /\ ~ Ran(i, "rbac:raise")
                /\ (NameOf(i) \in {"shell", "bash"}
                    /\ ~ HasFirstToken(ArgsOf(i)["command"].s)) => ~ perm.value

\* How many of the first n analysed failures were failures of tool t.
FailuresOf(t, n) == Cardinality({m \in 1..n : rec_log[m].tool = t})

\* C23: from a tool's third analysed failure on, analyze_error answers with
\* the strategy ask_user; for its first two failures the repeated-failure
\* override is not applied.
C23_EscalatesFromThirdFailure ==
    \A n \in 1..Len(rec_log) :
        IF FailuresOf(rec_log[n].tool, n) > 2
        THEN rec_log[n].plan.strategy = "ask_user"
        ELSE rec_log[n].plan.reasoning # "failed repeatedly"

\* The category and strategy the routing table gives a lower-cased error
\* text, the first matching class winning.
RoutingTable(msg, tool_name) ==
    LET m == Lower(msg)
        has(w) == IsSub(w, m)
    IN  IF has(<<"s", "y", "n", "t", "a", "x">>)
           \/ has(<<"i", "n", "d", "e", "n", "t", "a", "t", "i", "o", "n">>)
        THEN <<"syntax", "modify_args">>
        ELSE IF has(<<"t", "i", "m", "e", "o", "u", "t">>)
                \/ has(<<"t", "i", "m", "e", "d", " ", "o", "u", "t">>)
        THEN <<"timeout", "retry_delay">>
        ELSE IF has(<<"p", "e", "r", "m", "i", "s", "s", "i", "o", "n">>)
                \/ has(<<"a", "c", "c", "e", "s", "s", " ", "d", "e", "n", "i", "e", "d">>)
        THEN <<"permission", "ask_user">>
        ELSE IF has(<<"n", "o", "t", " ", "f", "o", "u", "n", "d">>)
                \/ has(<<"n", "o", " ", "s", "u", "c", "h", " ", "f", "i", "l", "e">>)
        THEN <<"not_found", IF tool_name = "file_tool" THEN "modify_args" ELSE "retry">>
        ELSE <<"unknown", "retry">>

\* C24: for a tool with fewer than three analysed failures, counting the
\* current one, analyze_error returns the category and the strategy of the
\* routing table.
C24_RoutedByCategory ==
    \A n \in 1..Len(rec_log) :
        FailuresOf(rec_log[n].tool, n) < 3 =>
            <<rec_log[n].plan.category, rec_log[n].plan.strategy>>
                = RoutingTable(rec_log[n].msg, rec_log[n].tool)

\* C31: a step of the dispatcher raises a tool's failure counter only when
\* the tool of some call was executing and raised (stage 5): no step of the
\* gate stages raises a counter or changes the blacklist.
C31_FailuresOnlyFromExecution ==
    [][ \A t \in ToolNames :
          (failure_counts'[t] > failure_counts[t] \/ blocked_tools' # blocked_tools) =>
              \E i \in Calls :
                  /\ NameOf(i) = t
                  /\ pc[i] = "executing"
                  /\ pc'[i] = "done"
                  /\ results'[i].kind = "ToolExecutionError" ]_vars

\* C32: analyze_error applies the repeated-failure override to a tool exactly
\* when that tool itself has more than two analysed failures, counting the
\* current one: the failures of other tools never count.
C32_EscalationCountsOwnFailures ==
    \A n \in 1..Len(rec_log) :
        (rec_log[n].plan.reasoning = "failed repeatedly")
            <=> (FailuresOf(rec_log[n].tool, n) > 2)

\* The lower-cased error text holds "not found" or "no such file".
SaysNotFound(msg) ==
    \/ IsSub(<<"n", "o", "t", " ", "f", "o", "u", "n", "d">>, Lower(msg))
    \/ IsSub(<<"n", "o", " ", "s", "u", "c", "h", " ", "f", "i", "l", "e">>, Lower(msg))

\* C33: a plan with the strategy retry has the category unknown; for a tool
\* other than file_tool, an error text that holds "not found" or "no such
\* file" and none of the words of the earlier classes gets the default plan
\* (unknown, retry) unless the repeated-failure override applies.
C33_RetryOnlyWithUnknown ==
    \A n \in 1..Len(rec_log) :
        /\ rec_log[n].plan.strategy = "retry" => rec_log[n].plan.category = "unknown"
        /\ ( /\ rec_log[n].tool # "file_tool"
             /\ SaysNotFound(rec_log[n].msg)
             /\ RoutingTable(rec_log[n].msg, rec_log[n].tool)[2] = "retry"
             /\ rec_log[n].plan.reasoning # "failed repeatedly" ) =>
               /\ rec_log[n].plan.category = "unknown"
               /\ rec_log[n].plan.strategy = "retry"

\* The calls inside an injection region that changed the environment.
InMutatingRegion ==
    {c \in DOMAIN ctx : ctx[c].at = "in" /\ ctx[c].injected_keys # <<>>}

\* C34: with two ToolCallAgent instances running calls in one process, at
\* most one call at a time is inside an injection region that changed the
\* process environment.
C34_RegionExclusiveAcrossAgents ==
    Cardinality(InMutatingRegion) <= 1

\* C35: when the second instance on the same persistence file saves, every
\* blocked tool and every antibody that the file held (persisted there by
\* the first instance) is still in the file.
C35_SaveKeepsOtherInstanceEntries ==
    [][ ( /\ reader.loaded
          /\ save_pc = "idle" /\ save_pc' = "idle"
          /\ imm_log' = imm_log
          /\ db' # db ) =>
            /\ Range(db.blocked_tools) \subseteq Range(db'.blocked_tools)
            /\ Range(db.antibodies) \subseteq Range(db'.antibodies) ]_vars

\* C36: after a call of inject_env_vars that no other call overlapped has
\* exited, by return or by an exception in the body, every key of the
\* environment is as before the call, whatever its key list, a list that
\* names a key twice included.
C36_RestoresWithRepeatedKeys ==
    \A c \in DOMAIN ctx :
        (ctx[c].at = "exited" /\ ctx[c].overlapped = {}) =>
            \A k \in EnvKeys : ctx[c].post[k] = ctx[c].pre[k]

\* C37: the instance has at most one running container at any time, and
\* when the last call on the instance was a stop() that returned, every
\* container it launched has been removed.
C37_OneContainerAndStopRemovesAll ==
    /\ Cardinality({c \in ContainerIds : docker[c] = "running"}) <= 1
    /\ (sb_ops # <<>> /\ sb_ops[Len(sb_ops)].op = "stop") =>
           \A c \in ContainerIds : docker[c] \in {"absent", "removed"}

\* The argument maps tried for a table entry: an action word or none, a
\* command or none.
ActionArgs ==
    { Args(a, c, NoVal) :
        a \in {NoVal, Val(S_read), Val(S_Write), Val(S_call), Val(S_cron),
               Val(S_init), Val(S_navigate)},
        c \in {NoVal, Val(CmdLs)} }

\* C38: for every (tool, action) entry the table grants the role of the
\* agent on a tool of the agent, some argument map makes the action inference
\* yield that action and check_permission grant it; and every Enterprise
\* call to mcp_tool that reached the RBAC stage was authorized.
C38_GrantedEntriesReachable ==
    /\ \A p \in _load_roles(role) :
          p[1] \in tool_map =>
              \E args \in ActionArgs :
                  /\ InferAction(p[1], args) = p[2]
                  /\ check_permission(role, p[1], p[2], args) = Ret(TRUE)
    /\ \A i \in Calls :
          (role = "enterprise" /\ NameOf(i) = "mcp_tool" /\ RbacChecked(i)) =>
              Ran(i, "rbac:allow")

\* The values of the Action enumeration a permission can name.
RbacActions == {"exec", "read", "write", "navigate", "init", "port", "call", "cron"}

\* check_permission grants the role this action on this resource with the
\* arguments of call i.
Grants(r, resource, action, i) ==
    check_permission(r, resource, action, ArgsOf(i)) = Ret(TRUE)

\* C40: with the arguments of any dispatched call, for every tool name and
\* every action, a call check_permission grants to Free it grants to Pro, and
\* a call it grants to Pro it grants to Enterprise.
C40_PermissionsMonotone ==
    \A i \in Calls :
        (Parsed(i) /\ pc[i] # "new") =>
            \A resource \in ToolNames, action \in RbacActions :
                /\ Grants("free", resource, action, i) => Grants("pro", resource, action, i)
                /\ Grants("pro", resource, action, i)
                      => Grants("enterprise", resource, action, i)

\* A Pro agent ran a batch of two authorized calls: one that Free is granted
\* too, one that Free is denied.
C40_Witness ==
    /\ role = "pro"
    /\ \E i, j \in Calls :
          /\ Ran(i, "rbac:allow") /\ Ran(j, "rbac:allow")
          /\ Grants("free", NameOf(i), InferAction(NameOf(i), ArgsOf(i)), i)
          /\ ~ Grants("free", NameOf(j), InferAction(NameOf(j), ArgsOf(j)), j)
          /\ Grants("enterprise", NameOf(j), InferAction(NameOf(j), ArgsOf(j)), j)

\* Every execute_tool task of the batch has returned.
BatchFinished == \A i \in Calls : pc[i] = "done"

\* C39: when the event loop keeps running and every tool invocation
\* terminates, every execute_tool call of the batch eventually returns; and
\* once they all have, the secrets lock is free, nobody waits for it, and the
\* environment is what it was before the batch.
C39_BatchTerminatesLockFree ==
    /\ <>BatchFinished
    /\ [](BatchFinished => (lock = 0 /\ Waiters = {} /\ env = DispEnv))

\* The batch finished after call 2 was started while call 1 was inside the
\* region (its start entry precedes the error entry of call 1), call 1 was
\* left by an exception of its tool, and call 2 then ran its tool.
C39_Witness ==
    /\ Len(tool_calls) = 2
    /\ BatchFinished
    /\ lock = 0
    /\ results[1].kind = "ToolExecutionError" /\ Ran(1, "restore")
    /\ results[2].kind = "Success"
    /\ ctx[1].injected_keys # <<>>
    /\ \E k, l \in 1..Len(audit) :
          /\ k < l
          /\ audit[k].event_type = "tool_call" /\ audit[k].call = 2
          /\ audit[l].event_type = "tool_result" /\ audit[l].call = 1

====
